---- MODULE Spec2Model ----
(***************************************************************************)
(* A model of the rule-based policy compiler (backend/build_vocab.py,      *)
(* backend/build_kb.py, backend/generate_queries.py) and of the ad hoc     *)
(* query executor (demo/main.py: execute_query).                           *)
(*                                                                         *)
(* Python str values are TLA+ strings; TLC evaluates Len, SubSeq and \o on *)
(* them, so every substring test, split and strip below works on the       *)
(* characters, as the code does.  Files are the strings written to them.   *)
(*                                                                         *)
(* A TLA+ module is ASCII and its strings hold no backquote, so six        *)
(* characters of the source are written with stand-ins, which occur        *)
(* nowhere else in the model's data:                                       *)
(*   EN_DASH   "{"  U+2013     EM_DASH  "}"  U+2014    ELLIPSIS "$" U+2026 *)
(*   AND_SIGN  "^"  U+2227     ARROW    "@"  U+2192    BACKQUOTE "<" U+0060*)
(***************************************************************************)
EXTENDS Integers, Sequences, FiniteSets, TLC

VARIABLES
    paragraph,        \* data/paragraph.txt
    questions_txt,    \* data/questions.txt
    questions_example,\* data/questions.example.txt
    vocabulary_json,  \* out/vocabulary.json (the dict json.dumps is given)
    vocabulary_md,    \* out/vocabulary.md
    vocab_pl,         \* out/vocab.pl
    kb_pl,            \* kb/kb.pl
    kb_fol_md,        \* kb/kb_fol.md
    kb_aug_pl,        \* kb/kb_aug.pl
    queries_json,     \* results/queries.json (the list json.dumps is given)
    queries_md,       \* results/queries.md
    queries_pl,       \* results/queries.pl
    term_set,         \* a term set handed to categorize_terms
    categorized,      \* what categorize_terms returned for term_set
    question,         \* a question handed to map_question_to_query
    mapped,           \* what map_question_to_query returned for question
    call,             \* a call of one more pure function: its argument and result
    request,          \* the query request the demo is serving, if any
    waiting,          \* the requests accepted while that one is served
    response,         \* the demo's reply to the latest request
    last,             \* the compiler run or call that ended last
    made_from         \* for each compiler, the input its last run read

\* a path of the file system: absent, or a file with its content
NoFile == [exists |-> FALSE, content |-> ""]
File(c) == [exists |-> TRUE, content |-> c]

\* a faulty writer: opens the file for appending
append_text(old, data) == old \o data

\* path.write_text(data) on a file that held old: the file holds data
write_text(old, data) == data

EN_DASH == "{"
EM_DASH == "}"
ELLIPSIS == "$"
AND_SIGN == "^"
ARROW == "@"
BACKQUOTE == "<"

----------------------------------------------------------------------------
(* Python str operations *)

Char(s, i) == SubSeq(s, i, i)

\* k in t
Contains(k, t) ==
    LET n == Len(k)
    IN  \E i \in n..Len(t) : SubSeq(t, i - n + 1, i) = k

\* s.startswith(p)
StartsWith(s, p) == Len(p) <= Len(s) /\ SubSeq(s, 1, Len(p)) = p

UPPER == "ABCDEFGHIJKLMNOPQRSTUVWXYZ"
LOWER == "abcdefghijklmnopqrstuvwxyz"
DIGITS == "0123456789"

CharsOf(s) == {Char(s, i) : i \in 1..Len(s)}

IndexIn(s, c) == CHOOSE i \in 1..Len(s) : Char(s, i) = c

UpperCase == CharsOf(UPPER)
LowerCase == CharsOf(LOWER)
Digit == CharsOf(DIGITS)

LowerOf == [c \in UpperCase |-> Char(LOWER, IndexIn(UPPER, c))]

LowerChar(c) == IF c \in UpperCase THEN LowerOf[c] ELSE c

\* The character-by-character functions below build s[lo..hi] from its two
\* halves, which keeps the evaluation shallow on long texts.

RECURSIVE LowerRange(_, _, _)
LowerRange(s, lo, hi) ==
    IF lo > hi THEN ""
    ELSE IF lo = hi THEN LowerChar(Char(s, lo))
    ELSE LowerRange(s, lo, (lo + hi) \div 2) \o LowerRange(s, (lo + hi) \div 2 + 1, hi)

\* s.lower()
Lower(s) ==
    IF \A i \in 1..Len(s) : Char(s, i) \notin UpperCase THEN s ELSE LowerRange(s, 1, Len(s))

RECURSIVE ReplaceRange(_, _, _, _, _)
ReplaceRange(s, old, new, lo, hi) ==
    IF lo > hi THEN ""
    ELSE IF lo = hi THEN (IF Char(s, lo) = old THEN new ELSE Char(s, lo))
    ELSE ReplaceRange(s, old, new, lo, (lo + hi) \div 2)
         \o ReplaceRange(s, old, new, (lo + hi) \div 2 + 1, hi)

\* s.replace(old, new) for a one-character old
Replace(s, old, new) ==
    IF \A i \in 1..Len(s) : Char(s, i) # old THEN s ELSE ReplaceRange(s, old, new, 1, Len(s))

\* the characters \s matches and str.strip() removes (those a TLA+ string can hold)
Whitespace == {" ", "\t", "\n", "\r", "\f"}

IsSpace(c) == c \in Whitespace

\* the least member of a non-empty set of integers
Min(S) == CHOOSE i \in S : \A j \in S : i <= j

\* s.lstrip(), s.rstrip() and s.strip() with the characters of the set chars
LStripOf(s, chars) ==
    IF Len(s) > 0 /\ Char(s, 1) \notin chars THEN s
    ELSE LET keep == {i \in 1..Len(s) : Char(s, i) \notin chars}
         IN  IF keep = {} THEN "" ELSE SubSeq(s, Min(keep), Len(s))

RStripOf(s, chars) ==
    IF Len(s) > 0 /\ Char(s, Len(s)) \notin chars THEN s
    ELSE LET keep == {k \in 0..(Len(s) - 1) : Char(s, Len(s) - k) \notin chars}
         IN  IF keep = {} THEN "" ELSE SubSeq(s, 1, Len(s) - Min(keep))

\* s.strip()
Strip(s) == LStripOf(RStripOf(s, Whitespace), Whitespace)

RECURSIVE CollapseRange(_, _, _)
\* a whitespace character becomes " " where its run starts and nothing after that
CollapseRange(s, lo, hi) ==
    IF lo > hi THEN ""
    ELSE IF lo = hi
         THEN (IF ~IsSpace(Char(s, lo)) THEN Char(s, lo)
               ELSE IF lo > 1 /\ IsSpace(Char(s, lo - 1)) THEN "" ELSE " ")
    ELSE CollapseRange(s, lo, (lo + hi) \div 2) \o CollapseRange(s, (lo + hi) \div 2 + 1, hi)

\* re.sub(r"\s+", " ", s)
CollapseWhitespace(s) ==
    IF \A i \in 1..Len(s) :
           IsSpace(Char(s, i)) => Char(s, i) = " " /\ (i = 1 \/ ~IsSpace(Char(s, i - 1)))
    THEN s
    ELSE CollapseRange(s, 1, Len(s))

RECURSIVE JoinWith(_, _)
\* sep.join(xs)
JoinWith(sep, xs) ==
    IF Len(xs) = 0 THEN ""
    ELSE IF Len(xs) = 1 THEN xs[1]
    ELSE xs[1] \o sep \o JoinWith(sep, Tail(xs))

RECURSIVE Ascending(_)
\* the members of a set of integers in ascending order
Ascending(S) == IF S = {} THEN <<>> ELSE <<Min(S)>> \o Ascending(S \ {Min(S)})

\* the pieces of s between the separators at the indices cuts (ascending)
PiecesAt(s, cuts) ==
    LET edge == <<0>> \o cuts \o <<Len(s) + 1>>
    IN  [j \in 1..(Len(cuts) + 1) |-> SubSeq(s, edge[j] + 1, edge[j + 1] - 1)]

\* s.split(sep) for a one-character sep
Split(s, sep) == PiecesAt(s, Ascending({i \in 1..Len(s) : Char(s, i) = sep}))

\* code point order of the characters the model uses (the stand-ins last,
\* where the characters they stand for are)
CodeOrder ==
    "\t\n\f\r !\"#%&'()*+,-./" \o DIGITS \o ":;=>?" \o UPPER \o "[\\]_" \o BACKQUOTE
    \o LOWER \o "|~" \o EN_DASH \o EM_DASH \o ELLIPSIS \o ARROW \o AND_SIGN

Ord == [c \in CharsOf(CodeOrder) |-> IndexIn(CodeOrder, c)]

\* a < b on Python strings
StrLess(a, b) ==
    LET n == IF Len(a) < Len(b) THEN Len(a) ELSE Len(b)
        differ == {i \in 1..n : Char(a, i) # Char(b, i)}
    IN  IF differ = {} THEN Len(a) < Len(b)
        ELSE LET d == CHOOSE i \in differ : \A j \in differ : i <= j
             IN  Ord[Char(a, d)] < Ord[Char(b, d)]

RECURSIVE SortedStrings(_)
\* sorted(S) for a set of strings
SortedStrings(S) ==
    IF S = {} THEN <<>>
    ELSE LET m == CHOOSE a \in S : \A b \in S \ {a} : StrLess(a, b)
         IN  <<m>> \o SortedStrings(S \ {m})

Range(xs) == {xs[i] : i \in 1..Len(xs)}

NoDuplicates(xs) == \A i, j \in 1..Len(xs) : xs[i] = xs[j] => i = j

RECURSIVE IsSubsequence(_, _)
\* xs is ys with some entries left out
IsSubsequence(xs, ys) ==
    IF Len(xs) = 0 THEN TRUE
    ELSE IF Len(ys) = 0 THEN FALSE
    ELSE IF xs[1] = ys[1] THEN IsSubsequence(Tail(xs), Tail(ys))
    ELSE IsSubsequence(xs, Tail(ys))

----------------------------------------------------------------------------
(* backend/build_kb.py *)

norm(s) ==
    LET s1 == Lower(s)
        s2 == Replace(Replace(s1, EN_DASH, "-"), EM_DASH, "-")
        s3 == Replace(s2, ELLIPSIS, "...")
    IN  Strip(CollapseWhitespace(s3))

\* a faulty rule: the facts are appended whatever the test says
Unconditionally(cond, xs) == xs

\* if cond: facts.append(...) for each entry of xs
If(cond, xs) == IF cond THEN xs ELSE <<>>

\* purpose_map.items(), in the dict's insertion order
purpose_map ==
    << <<"provide", "provide_services">>,
       <<"deliver", "provide_services">>,
       <<"maintain", "maintain_services">>,
       <<"keep", "maintain_services">>,
       <<"improve", "improve_services">>,
       <<"personalize", "personalize_content_ads">>,
       <<"communicate", "communicate_with_users">>,
       <<"protect", "protect_from_fraud_abuse_security_risks">>,
       <<"fraud", "protect_from_fraud_abuse_security_risks">>,
       <<"abuse", "protect_from_fraud_abuse_security_risks">>,
       <<"security", "protect_from_fraud_abuse_security_risks">>,
       <<"risk", "protect_from_fraud_abuse_security_risks">> >>

\* the set purposes after the loop over purpose_map
MatchedKeywords(t) ==
    {purpose_map[i][1] : i \in {j \in 1..Len(purpose_map) : Contains(purpose_map[j][1], t)}}

purposes(t) ==
    {purpose_map[i][2] : i \in {j \in 1..Len(purpose_map) : Contains(purpose_map[j][1], t)}}

RECURSIVE FirstSeen(_)
\* the distinct values of a list in first-occurrence order
FirstSeen(xs) ==
    IF Len(xs) = 0 THEN <<>>
    ELSE LET front == FirstSeen(SubSeq(xs, 1, Len(xs) - 1))
             x == xs[Len(xs)]
         IN  IF x \in Range(front) THEN front ELSE Append(front, x)

\* the purposes in the order the loop over purpose_map adds them
PurposesInMapOrder(t) ==
    LET hit(e) == Contains(e[1], t)
        hits == SelectSeq(purpose_map, hit)
    IN  FirstSeen([i \in 1..Len(hits) |-> hits[i][2]])

\* "for p in sorted(purposes)": the order in which the purposes are emitted
purpose_order(t) == SortedStrings(purposes(t))

tech_markers == <<"device", "devices", "browser", "browsers", "app", "apps", "ip address", "ip">>

\* a faulty rendering: the purpose fact names the data too
UsesDataFor(p) == "uses_for(google, data, " \o p \o ")."

UsesFor(p) == "uses_for(google, " \o p \o ")."

\* the list facts before deduplication
emitted_facts(t) ==
    <<"company(google).", "actor(google).", "actor(user).">>
    \o If(Contains("collect", t), <<"collects(google, information).">>)
    \o If(Contains("google account", t),
          <<"context(google_account).">>
          \o If(Contains("provide", t) \/ Contains("provided", t),
                <<"collects(google, personal_information).",
                  "purpose(google, personal_information, create_or_use_account).">>))
    \o If(Contains("content", t), <<"collects_content(google, user_content).">>)
    \o If(Contains("cookie", t), <<"uses_technology(google, cookies).">>)
    \o If(Contains("server log", t) \/ Contains("server logs", t),
          <<"uses_technology(google, server_logs).">>)
    \o If(\E i \in 1..Len(tech_markers) : Contains(tech_markers[i], t),
          <<"collects_tech_data(google, technical_data).">>)
    \o If(Contains("ip address", t), <<"collects_tech_data(google, ip_address).">>)
    \o If(Contains("vary", t) \/ Contains("varies", t),
          <<"varies_by(data_collection, service_usage).",
            "varies_by(data_collection, privacy_controls).">>)
    \o If((Contains("not signed", t) \/ Contains("not signed in", t))
          /\ (Contains("unique identifier", t) \/ Contains("unique identifiers", t)
              \/ Contains("identifier", t)),
          <<"stores_under_identifier(google, unique_identifier, not_signed_in, remember_preferences).">>)
    \o (LET order == purpose_order(t) IN [i \in 1..Len(order) |-> UsesFor(order[i])])
    \o If(Contains("retain", t) \/ Contains("retention", t) \/ Contains("kept", t),
          <<"retains(google, data, retention_policy).">>)
    \o If(Contains("auto-delete", t) \/ Contains("auto delete", t),
          <<"allows_setting(google, auto_delete).">>)
    \o If(Contains("delete", t), <<"allows_setting(google, delete).">>)
    \o If(Contains("business needs", t), <<"may_keep_longer_for(google, data, business_needs).">>)
    \o If(Contains("legal needs", t), <<"may_keep_longer_for(google, data, legal_needs).">>)

\* the list fol_lines
emitted_fol_lines(t) ==
    <<"- company(google) " \o AND_SIGN \o " actor(google) " \o AND_SIGN \o " actor(user).">>
    \o If(Contains("collect", t), <<"- collects(google, information).">>)
    \o If(Contains("google account", t),
          <<"- context(google_account).">>
          \o If(Contains("provide", t) \/ Contains("provided", t),
                <<"- collects(google, personal_information) " \o AND_SIGN
                  \o " purpose(google, personal_information, create_or_use_account).">>))
    \o If(Contains("content", t), <<"- collects_content(google, user_content).">>)
    \o If(Contains("cookie", t), <<"- uses_technology(google, cookies).">>)
    \o If(Contains("server log", t) \/ Contains("server logs", t),
          <<"- uses_technology(google, server_logs).">>)
    \o If(\E i \in 1..Len(tech_markers) : Contains(tech_markers[i], t),
          <<"- collects_tech_data(google, technical_data).">>)
    \o If(Contains("ip address", t), <<"- collects_tech_data(google, ip_address).">>)
    \o If(Contains("vary", t) \/ Contains("varies", t),
          <<"- varies_by(data_collection, service_usage) " \o AND_SIGN
            \o " varies_by(data_collection, privacy_controls).">>)
    \o If((Contains("not signed", t) \/ Contains("not signed in", t))
          /\ (Contains("unique identifier", t) \/ Contains("unique identifiers", t)
              \/ Contains("identifier", t)),
          <<"- stores_under_identifier(google, unique_identifier, not_signed_in, remember_preferences).">>)
    \o (LET order == purpose_order(t) IN [i \in 1..Len(order) |-> "- " \o UsesFor(order[i])])
    \o If(Contains("retain", t) \/ Contains("retention", t) \/ Contains("kept", t),
          <<"- retains(google, data, retention_policy).">>)
    \o If(Contains("auto-delete", t) \/ Contains("auto delete", t),
          <<"- allows_setting(google, auto_delete).">>)
    \o If(Contains("delete", t), <<"- allows_setting(google, delete).">>)
    \o If(Contains("business needs", t), <<"- may_keep_longer_for(google, data, business_needs).">>)
    \o If(Contains("legal needs", t), <<"- may_keep_longer_for(google, data, legal_needs).">>)

\* [f for f in facts if not (f in seen or seen.add(f))]
\* a faulty deduplication: sorted(set(facts))
SortedDistinct(xs) == SortedStrings(Range(xs))

Deduplicate(xs) == FirstSeen(xs)

\* extract_facts(text)[0]
extract_facts(text) == Deduplicate(emitted_facts(norm(text)))

\* extract_facts(text)[1]
extract_fol_lines(text) == emitted_fol_lines(norm(text))

KB_HEADER == "% kb.pl (auto-generated)"

rules ==
    <<"", "% --- derived relations (optional) ---", "technology(T) :- uses_technology(google, T).">>

\* the text write_kb writes
write_kb(facts) == JoinWith("\n", <<KB_HEADER>> \o facts \o rules) \o "\n"

\* the text write_fol_md writes
write_fol_md(lines) ==
    JoinWith("\n", <<"Manual Translation Summary (FOL-ish)\n",
                     "## Statements derived from the paragraph\n">> \o lines)

----------------------------------------------------------------------------
(* backend/build_vocab.py *)

PHRASES ==
    <<"privacy policy", "google account", "privacy controls", "unique identifiers",
      "unique identifier", "server logs", "ip address", "personal information",
      "business needs", "legal needs", "auto-delete", "auto delete">>

\* CATEGORY_KEYWORDS.items(), in the dict's insertion order
CATEGORY_KEYWORDS ==
    << <<"actors", <<"google", "user", "users", "we", "our", "you">> >>,
       <<"contexts", <<"service", "services", "account", "browser", "browsers", "app", "apps",
                       "device", "devices", "settings", "controls", "privacy controls",
                       "google account">> >>,
       <<"data_types", <<"information", "personal information", "content", "data", "ip address",
                         "identifiers", "unique identifiers", "unique identifier", "activity",
                         "usage">> >>,
       <<"technologies", <<"cookies", "cookie", "server logs", "logs">> >>,
       <<"purposes", <<"provide", "deliver", "maintain", "keep", "improve", "personalize",
                       "communicate", "protect", "fraud", "abuse", "security", "risk",
                       "preferences">> >>,
       <<"retention", <<"retain", "retention", "keep longer", "kept longer", "delete",
                        "auto-delete", "auto delete">> >>,
       <<"reasons", <<"business needs", "legal needs", "business", "legal">> >> >>

\* (name, arity, template)
DEFAULT_PREDICATES ==
    << <<"collects", 2, "collects(Actor, DataType)">>,
       <<"collects_content", 2, "collects_content(Actor, ContentType)">>,
       <<"collects_tech_data", 2, "collects_tech_data(Actor, TechDataType)">>,
       <<"uses_technology", 2, "uses_technology(Actor, Technology)">>,
       <<"uses_for", 2, "uses_for(Actor, Purpose)">>,
       <<"purpose", 3, "purpose(Actor, DataType, Purpose)">>,
       <<"varies_by", 2,
         "varies_by(Process, Factor)  % e.g., varies_by(data_collection, privacy_controls)">>,
       <<"stores_under_identifier", 4,
         "stores_under_identifier(Actor, IdentifierType, Context, Purpose)">>,
       <<"retains", 3, "retains(Actor, DataType, RetentionPolicy)">>,
       <<"allows_setting", 2, "allows_setting(Actor, SettingAction)  % e.g., delete/auto_delete">>,
       <<"may_keep_longer_for", 3, "may_keep_longer_for(Actor, DataType, Reason)">> >>

\* PREDICATE_TRIGGER_KEYWORDS.items()
PREDICATE_TRIGGER_KEYWORDS ==
    << <<"collects", <<"collect", "collects", "information", "data", "personal information",
                       "content">> >>,
       <<"collects_content", <<"content">> >>,
       <<"collects_tech_data", <<"device", "ip address", "cookies", "server logs", "logs">> >>,
       <<"uses_technology", <<"cookies", "server logs", "logs">> >>,
       <<"uses_for", <<"use", "uses", "purpose", "provide", "improve", "protect", "personalize",
                       "communicate">> >>,
       <<"purpose", <<"purpose", "use", "uses">> >>,
       <<"varies_by", <<"vary", "varies", "privacy controls">> >>,
       <<"stores_under_identifier", <<"unique identifier", "unique identifiers", "identifier">> >>,
       <<"retains", <<"retain", "retention", "kept longer", "keep longer">> >>,
       <<"allows_setting", <<"delete", "auto-delete", "auto delete">> >>,
       <<"may_keep_longer_for", <<"business", "legal", "business needs", "legal needs">> >> >>

\* d.get(key, default) on a dict given by its items
Get(items, key, default) ==
    IF \E i \in 1..Len(items) : items[i][1] = key
    THEN items[CHOOSE i \in 1..Len(items) : items[i][1] = key][2]
    ELSE default

PredicateSig(name, arity, template) == [name |-> name, arity |-> arity, template |-> template]

normalize(s) ==
    LET s1 == Lower(s)
        s2 == Replace(Replace(s1, EN_DASH, "-"), EM_DASH, "-")
    IN  Strip(CollapseWhitespace(s2))

IsLetter(c) == c \in LowerCase

\* the last index of the run of [a-z] that starts at i
RunEnd(t, i) ==
    IF \E j \in i..Len(t) : ~IsLetter(Char(t, j))
    THEN (CHOOSE j \in i..Len(t) : ~IsLetter(Char(t, j)) /\ \A k \in i..(j - 1) : IsLetter(Char(t, k))) - 1
    ELSE Len(t)

RECURSIVE FindTokens(_, _)
\* re.findall(r"[a-z]+(?:'[a-z]+)?", t), scanning from index i
FindTokens(t, i) ==
    IF ~\E j \in i..Len(t) : IsLetter(Char(t, j)) THEN <<>>
    ELSE LET b == CHOOSE j \in i..Len(t) : IsLetter(Char(t, j)) /\ \A k \in i..(j - 1) : ~IsLetter(Char(t, k))
                 e == RunEnd(t, b)
                 f == IF e + 2 <= Len(t) /\ Char(t, e + 1) = "'" /\ IsLetter(Char(t, e + 2))
                      THEN RunEnd(t, e + 2) ELSE e
         IN  <<SubSeq(t, b, f)>> \o FindTokens(t, f + 1)

\* ph_norm for each ph in PHRASES
PhrasesNorm == [i \in 1..Len(PHRASES) |-> normalize(PHRASES[i])]

\* a faulty extraction: short tokens are kept
TermsWithShort(text) ==
    LET t == normalize(text)
        tokens == FindTokens(t, 1)
    IN  {PhrasesNorm[i] : i \in {j \in 1..Len(PHRASES) : Contains(PhrasesNorm[j], t)}}
        \cup Range(tokens)

extract_terms(text) ==
    LET t == normalize(text)
        tokens == FindTokens(t, 1)
    IN  {PhrasesNorm[i] : i \in {j \in 1..Len(PHRASES) : Contains(PhrasesNorm[j], t)}}
        \cup {tokens[i] : i \in {j \in 1..Len(tokens) : ~(Len(tokens[j]) <= 2)}}

\* len(s.split()): the number of whitespace-separated words
WordCount(s) ==
    Cardinality({i \in 1..Len(s) : ~IsSpace(Char(s, i)) /\ (i = 1 \/ IsSpace(Char(s, i - 1)))})

\* key_norm, and whether it has several words, for each key of each category
CategoryKeysNorm ==
    [c \in 1..Len(CATEGORY_KEYWORDS) |->
        [k \in 1..Len(CATEGORY_KEYWORDS[c][2]) |->
            LET key_norm == normalize(CATEGORY_KEYWORDS[c][2][k])
            IN  [key_norm |-> key_norm, multi |-> WordCount(key_norm) > 1]]]

\* the test of line 156
KeyMatches(term, key) == term = key.key_norm \/ (key.multi /\ Contains(key.key_norm, term))

CategoryMatches(term, c) ==
    \E k \in 1..Len(CategoryKeysNorm[c]) : KeyMatches(term, CategoryKeysNorm[c][k])

\* every category with a keyword that matches the term
MatchingCategories(term) == {c \in 1..Len(CATEGORY_KEYWORDS) : CategoryMatches(term, c)}

\* a faulty scan: the loop over the categories goes on after a match
AllMatching(term) == MatchingCategories(term)

\* the categories the loops of categorize_terms add the term to: the scan over
\* the categories stops ("if placed: break") at the first one with a match
PlacedIn(term) ==
    LET m == MatchingCategories(term)
    IN  IF m = {} THEN {} ELSE {CHOOSE c \in m : \A d \in m : c <= d}

\* the dict categorized, as its items: one set per table category, then "other"
categorize_terms(terms) ==
    LET placed == [term \in terms |-> PlacedIn(term)]
    IN  [c \in 1..Len(CATEGORY_KEYWORDS) |->
            <<CATEGORY_KEYWORDS[c][1], {term \in terms : c \in placed[term]}>>]
        \o << <<"other", {term \in terms : placed[term] = {}}>> >>

\* normalize(tr) for tr in PREDICATE_TRIGGER_KEYWORDS.get(name, []), for each
\* entry of DEFAULT_PREDICATES
TriggersNorm ==
    [p \in 1..Len(DEFAULT_PREDICATES) |->
        LET triggers == Get(PREDICATE_TRIGGER_KEYWORDS, DEFAULT_PREDICATES[p][1], <<>>)
        IN  [i \in 1..Len(triggers) |-> normalize(triggers[i])]]

\* the trigger keywords of the catalog entry named name
TriggersOf(name) ==
    TriggersNorm[CHOOSE p \in 1..Len(DEFAULT_PREDICATES) : DEFAULT_PREDICATES[p][1] = name]

\* a faulty selection: the whole catalog as soon as one entry is triggered
WholeCatalogIfAny(joined) ==
    LET keep(p) == \E i \in 1..Len(TriggersOf(p[1])) : Contains(TriggersOf(p[1])[i], joined)
    IN  IF \E i \in 1..Len(DEFAULT_PREDICATES) : keep(DEFAULT_PREDICATES[i])
        THEN [i \in 1..Len(DEFAULT_PREDICATES) |->
                 PredicateSig(DEFAULT_PREDICATES[i][1], DEFAULT_PREDICATES[i][2],
                              DEFAULT_PREDICATES[i][3])]
        ELSE <<>>

\* the list selected when the loop over DEFAULT_PREDICATES ends
TriggeredPredicates(joined) ==
    LET keep(p) == \E i \in 1..Len(TriggersOf(p[1])) : Contains(TriggersOf(p[1])[i], joined)
        kept == SelectSeq(DEFAULT_PREDICATES, keep)
    IN  [i \in 1..Len(kept) |-> PredicateSig(kept[i][1], kept[i][2], kept[i][3])]

\* a faulty selection: the list is returned as the loop left it
NoFailsafe(selected) == selected

\* lines 181-185: the minimal core when nothing matched
WithFailsafe(selected) ==
    IF selected = <<>>
    THEN <<PredicateSig("collects", 2, "collects(Actor, DataType)"),
           PredicateSig("uses_for", 2, "uses_for(Actor, Purpose)")>>
    ELSE selected

\* t + " " + " ".join(sorted(terms))
Joined(text, terms) == normalize(text) \o " " \o JoinWith(" ", SortedStrings(terms))

pick_predicates(text, terms) == WithFailsafe(TriggeredPredicates(Joined(text, terms)))

RECURSIVE SortedByKey(_)
\* the pairs (len(x.split()), x) of S in ascending order
SortedByKey(S) ==
    IF S = {} THEN <<>>
    ELSE LET before(a, b) == a[1] < b[1] \/ (a[1] = b[1] /\ StrLess(a[2], b[2]))
             m == CHOOSE a \in S : \A b \in S \ {a} : before(a, b)
         IN  <<m>> \o SortedByKey(S \ {m})

\* sorted(s, key=lambda x: (len(x.split()), x))
to_sorted_list(s) ==
    LET keyed == SortedByKey({<<WordCount(x), x>> : x \in s})
    IN  [i \in 1..Len(keyed) |-> keyed[i][2]]

RECURSIVE Flatten(_)
Flatten(xss) == IF Len(xss) = 0 THEN <<>> ELSE xss[1] \o Flatten(Tail(xss))

RECURSIVE SubNonConstRange(_, _, _)
SubNonConstRange(s, lo, hi) ==
    IF lo > hi THEN ""
    ELSE IF lo = hi
         THEN (IF Char(s, lo) \in LowerCase \cup Digit \cup {"_"} THEN Char(s, lo) ELSE "_")
    ELSE SubNonConstRange(s, lo, (lo + hi) \div 2) \o SubNonConstRange(s, (lo + hi) \div 2 + 1, hi)

\* re.sub(r"[^a-z0-9_]", "_", s)
SubNonConst(s) == SubNonConstRange(s, 1, Len(s))

RECURSIVE ArityText(_)
\* str(n) of a natural number
ArityText(n) == IF n < 10 THEN Char(DIGITS, n + 1) ELSE ArityText(n \div 10) \o Char(DIGITS, (n % 10) + 1)

\* the dict vocab of main, as its items; paths are the command line's
Vocab(paragraph_path, questions_arg, by_category, preds) ==
    [source_files |-> << <<"paragraph", paragraph_path>>, <<"questions", questions_arg>> >>,
     constants_by_type |->
        [i \in 1..Len(by_category) |-> <<by_category[i][1], to_sorted_list(by_category[i][2])>>],
     predicates |-> preds]

\* the text write_md writes
write_md(vocab) ==
    LET cats == vocab.constants_by_type
        section(c) == <<"### " \o c[1] \o "\n">>
                      \o (IF c[2] = <<>> THEN <<"_None_\n">>
                          ELSE [i \in 1..Len(c[2]) |-> "- " \o BACKQUOTE \o c[2][i] \o BACKQUOTE]
                               \o <<"">>)
        sig(p) == "- " \o BACKQUOTE \o p.name \o "/" \o ArityText(p.arity) \o BACKQUOTE \o ": "
                  \o p.template
    IN  JoinWith("\n",
            <<"FOL Vocabulary & Predicate Schema\n", "## Constants / Terms by Category\n">>
            \o Flatten([i \in 1..Len(cats) |-> section(cats[i])])
            \o <<"\n## Predicate Signatures\n">>
            \o [i \in 1..Len(vocab.predicates) |-> sig(vocab.predicates[i])]
            \o <<"">>)

\* the lines write_prolog collects
prolog_lines(vocab) ==
    LET cats == vocab.constants_by_type
        entity(c, it) == "entity_type(" \o SubNonConst(Lower(it)) \o ", " \o Lower(c[1]) \o ")."
        sig(p) == "predicate_signature(" \o p.name \o ", " \o ArityText(p.arity) \o ")."
    IN  <<"% Auto-generated vocabulary", "% Entities (constants) by type">>
        \o Flatten([i \in 1..Len(cats) |-> [j \in 1..Len(cats[i][2]) |-> entity(cats[i], cats[i][2][j])]])
        \o <<"\n% Predicate signatures">>
        \o [i \in 1..Len(vocab.predicates) |-> sig(vocab.predicates[i])]

\* the text write_prolog writes
write_prolog(vocab) == JoinWith("\n", prolog_lines(vocab)) \o "\n"

----------------------------------------------------------------------------
(* augment/wordnet_augment.py *)

IsAlnum(c) == c \in LowerCase \cup Digit

RECURSIVE SlugRange(_, _, _)
\* a character outside [a-z0-9] becomes "_" where its run starts and nothing
\* after that
SlugRange(s, lo, hi) ==
    IF lo > hi THEN ""
    ELSE IF lo = hi
         THEN (IF IsAlnum(Char(s, lo)) THEN Char(s, lo)
               ELSE IF lo > 1 /\ ~IsAlnum(Char(s, lo - 1)) THEN "" ELSE "_")
    ELSE SlugRange(s, lo, (lo + hi) \div 2) \o SlugRange(s, (lo + hi) \div 2 + 1, hi)

\* re.sub(r"[^a-z0-9]+", "_", s)
CollapseNonAlnum(s) == SlugRange(s, 1, Len(s))

\* a faulty escape: a leading digit is left as it is
NoEscape(s) == s

\* lines 26-27: a leading digit is escaped
EscapeDigit(s) == IF Char(s, 1) \in Digit THEN "x_" \o s ELSE s

\* slug(s)
slug(s) ==
    LET t == LStripOf(RStripOf(CollapseNonAlnum(Lower(s)), {"_"}), {"_"})
    IN  IF t = "" THEN "x" ELSE EscapeDigit(t)

----------------------------------------------------------------------------
(* backend/generate_queries.py *)

\* norm of generate_queries.py
question_norm(s) == CollapseWhitespace(Lower(Strip(s)))

\* the condition of the k-th "if" of map_question_to_query on t = norm(qtext)
RuleCondition(k, t) ==
    CASE k = 1 -> Contains("what information", t) /\ Contains("collect", t)
      [] k = 2 -> Contains("why", t) /\ (Contains("collect", t) \/ Contains("use", t))
      [] k = 3 -> Contains("depend", t) /\ Contains("privacy control", t)
      [] k = 4 -> Contains("not signed", t) /\ Contains("identifier", t)
      [] k = 5 -> Contains("google account", t) /\ (Contains("what", t) \/ Contains("information", t))
      [] k = 6 -> Contains("content", t)
                  /\ (Contains("create", t) \/ Contains("upload", t) \/ Contains("collect", t))
      [] k = 7 -> (Contains("technology", t) \/ Contains("technologies", t))
                  /\ (Contains("cookie", t) \/ Contains("server log", t) \/ Contains("logs", t))
      [] k = 8 -> (Contains("how long", t) \/ Contains("retain", t) \/ Contains("keep data", t))
                  /\ (Contains("delete", t) \/ Contains("auto", t))

\* what the k-th "if" returns: (query, answer shape)
RuleResult(k) ==
    CASE k = 1 -> <<"collects(google, X).", "X (all collected data types)">>
      [] k = 2 -> <<"uses_for(google, Purpose).", "Purpose (all purposes)">>
      [] k = 3 -> <<"varies_by(data_collection, privacy_controls).", "true/false">>
      [] k = 4 -> <<"stores_under_identifier(google, unique_identifier, not_signed_in, Purpose).",
                    "Purpose">>
      [] k = 5 -> <<"purpose(google, personal_information, create_or_use_account).", "true/false">>
      [] k = 6 -> <<"collects_content(google, X).", "X (content type)">>
      [] k = 7 -> <<"uses_technology(google, Tech).", "Tech">>
      [] k = 8 -> <<"retains(google, data, Policy), allows_setting(google, delete), (allows_setting(google, auto_delete) ; true).",
                    "Policy + delete/auto-delete availability">>

UNMAPPED == <<"% TODO: add mapping rule for this question.", "N/A">>

\* the order in which map_question_to_query tests its rules
RuleOrder == <<1, 2, 3, 4, 5, 6, 7, 8>>

RECURSIVE LastMatch(_, _, _)
\* a faulty scan: a later rule that matches overrides an earlier one
LastMatch(order, i, t) ==
    IF i > Len(order) THEN UNMAPPED
    ELSE LET later == LastMatch(order, i + 1, t)
         IN  IF later # UNMAPPED THEN later
             ELSE IF RuleCondition(order[i], t) THEN RuleResult(order[i])
             ELSE UNMAPPED

RECURSIVE ScanRules(_, _, _)
\* the chain of "if ...: return ..." over the rules order[i..], then the last return
ScanRules(order, i, t) ==
    IF i > Len(order) THEN UNMAPPED
    ELSE IF RuleCondition(order[i], t) THEN RuleResult(order[i])
    ELSE ScanRules(order, i + 1, t)

map_question_to_query(qtext) == ScanRules(RuleOrder, 1, question_norm(qtext))

\* the end of the digits that follow the first character of ln, 0 if none
QidEnd(ln) ==
    LET ends == {j \in 2..Len(ln) : \A k \in 2..j : Char(ln, k) \in Digit}
    IN  IF ends = {} THEN 0 ELSE CHOOSE j \in ends : \A k \in ends : k <= j

\* re.match(r"^(q\d+)\s+(.*)$", ln, flags=re.IGNORECASE) of a stripped line
QidMatches(ln) ==
    /\ Char(ln, 1) \in {"q", "Q"}
    /\ QidEnd(ln) > 0
    /\ QidEnd(ln) < Len(ln)
    /\ IsSpace(Char(ln, QidEnd(ln) + 1))

\* the (qid, qtext) of the i-th line
read_item(i, ln) ==
    IF QidMatches(ln)
    THEN <<"Q" \o SubSeq(ln, 2, QidEnd(ln)), Strip(SubSeq(ln, QidEnd(ln) + 1, Len(ln)))>>
    ELSE <<"Q" \o ToString(i), ln>>

\* the stripped, non-blank lines of a text
question_lines(text) ==
    LET raw == Split(text, "\n")
    IN  SelectSeq([i \in 1..Len(raw) |-> Strip(raw[i])], LAMBDA ln : ln # "")

\* read_questions(), given the text of the file it chose
read_questions(text) ==
    LET lines == question_lines(text)
    IN  [i \in 1..Len(lines) |-> read_item(i, lines[i])]

\* main, lines 118-121: one record per question
Items(qs) ==
    [i \in 1..Len(qs) |->
        [qid |-> qs[i][1], question |-> qs[i][2],
         prolog_query |-> map_question_to_query(qs[i][2])[1],
         answer_shape |-> map_question_to_query(qs[i][2])[2]]]

\* a faulty test: no query is taken for the sentinel
NeverSentinel(q) == FALSE

\* q.strip().startswith("% TODO")
IsSentinel(q) == StartsWith(Strip(q), "% TODO")

MD_HEADER ==
    <<"Question " \o ARROW \o " Prolog Query Mapping\n",
      "| QID | Question | Prolog Query | Answer shape |",
      "|---|---|---|---|">>

md_row(it) ==
    "| " \o it.qid \o " | " \o it.question \o " | " \o BACKQUOTE \o it.prolog_query
         \o BACKQUOTE \o " | " \o it.answer_shape \o " |"

\* the text of queries.md
queries_md_text(items) ==
    JoinWith("\n", MD_HEADER \o [i \in 1..Len(items) |-> md_row(items[i])]) \o "\n"

PL_HEADER ==
    <<"% queries.pl (auto-generated)",
      ":- initialization(main).",
      "",
      "main :-",
      "  consult('../kb/kb.pl'),",
      "  format('Loaded KB.~n', []),",
      "  run_all,",
      "  halt.",
      "",
      "run_all :-">>

PL_FOOTER == "  true."

\* the line written for a sentinel query
placeholder(qid) == "  format('~n[" \o qid \o "] TODO mapping.~n', []),"

\* the lines of run_all for one record
pl_item(it) ==
    IF IsSentinel(it.prolog_query)
    THEN <<placeholder(it.qid)>>
    ELSE <<"  format('~n[" \o it.qid \o "] " \o it.question \o "~n', []),",
           "  ( findall(X, (" \o it.prolog_query
               \o "), Xs), Xs \\= [] -> format('  Answers: ~w~n', [Xs])",
           "  ; ( call((" \o it.prolog_query
               \o ")) -> format('  true.~n', []) ; format('  false / no answers.~n', []) ) ),">>

\* the text of queries.pl
queries_pl_text(items) ==
    JoinWith("\n", PL_HEADER \o Flatten([i \in 1..Len(items) |-> pl_item(items[i])])
                            \o <<PL_FOOTER>>) \o "\n"

----------------------------------------------------------------------------
(* the run of the generated results/queries.pl *)

IsNameChar(c) == c \in LowerCase \cup UpperCase \cup Digit \cup {"_"}

\* the variables of a fact-language expression: its names that start with a
\* capital letter or an underscore
VariablesOf(e) ==
    LET starts == {i \in 1..Len(e) :
                      IsNameChar(Char(e, i)) /\ (i = 1 \/ ~IsNameChar(Char(e, i - 1)))}
        stop(i) == Min({j \in i..Len(e) : j = Len(e) \/ ~IsNameChar(Char(e, j + 1))})
    IN  {SubSeq(e, i, stop(i)) : i \in {k \in starts : Char(e, k) \in UpperCase \cup {"_"}}}

\* the calls of findall in the text of a program: the variable whose
\* bindings each collects and the goal it enumerates, as written
findall_calls(text) ==
    LET lines == SelectSeq(Split(text, "\n"), LAMBDA ln : StartsWith(ln, "  ( findall("))
        cut(ln) == Min({i \in 1..(Len(ln) - 2) : SubSeq(ln, i, i + 2) = ", ("})
        close(ln) == Min({i \in 1..(Len(ln) - 6) : SubSeq(ln, i, i + 6) = "), Xs),"})
    IN  [i \in 1..Len(lines) |->
            [collected |-> SubSeq(lines[i], Len("  ( findall(") + 1, cut(lines[i]) - 1),
             goal |-> SubSeq(lines[i], cut(lines[i]) + 3, close(lines[i]) - 1)]]

\* the ground facts consult loads from a fact-file, as (name, arguments)
AtomName(a) == Strip(Split(a, "(")[1])

AtomArgs(a) ==
    LET inner == RStripOf(RStripOf(Split(a, "(")[2], {"."}), {")"})
        items == Split(inner, ",")
    IN  [i \in 1..Len(items) |-> Strip(items[i])]

consulted_facts(file) ==
    LET raw == Split(file.content, "\n")
        lines == [i \in 1..Len(raw) |-> Strip(raw[i])]
    IN  SelectSeq(lines, LAMBDA l : l # "" /\ ~StartsWith(l, "%") /\ ~Contains(":-", l))

IsVariable(x) == Char(x, 1) \in UpperCase \cup {"_"}

\* the goal atom unifies with the fact
Unifies(atom, fact) ==
    /\ AtomName(atom) = AtomName(fact)
    /\ Len(AtomArgs(atom)) = Len(AtomArgs(fact))
    /\ \A i \in 1..Len(AtomArgs(atom)) :
          IsVariable(AtomArgs(atom)[i]) \/ AtomArgs(atom)[i] = AtomArgs(fact)[i]

\* the pieces of s between the occurrences of sep outside parentheses
TopLevelSplit(s, sep) ==
    LET depth(i) == Cardinality({j \in 1..(i - 1) : Char(s, j) = "("})
                    - Cardinality({j \in 1..(i - 1) : Char(s, j) = ")"})
        pieces == PiecesAt(s, Ascending({i \in 1..Len(s) : Char(s, i) = sep /\ depth(i) = 0}))
    IN  [i \in 1..Len(pieces) |-> Strip(pieces[i])]

RECURSIVE Solutions(_, _)
\* the number of solutions of a goal over the facts: a conjunction of goals
\* without common variables, a disjunction in parentheses, true, an atom of
\* the derived relation technology/1, or an atom matched against the facts
Solutions(goal, facts) ==
    LET conj == TopLevelSplit(goal, ",")
        g == Strip(goal)
        product[i \in 0..Len(conj)] ==
            IF i = 0 THEN 1 ELSE product[i - 1] * Solutions(conj[i], facts)
    IN  IF Len(conj) > 1 THEN product[Len(conj)]
        ELSE IF g = "true" THEN 1
        ELSE IF Char(g, 1) = "("
             THEN LET alts == TopLevelSplit(SubSeq(g, 2, Len(g) - 1), ";")
                      sum[i \in 0..Len(alts)] ==
                          IF i = 0 THEN 0 ELSE sum[i - 1] + Solutions(alts[i], facts)
                  IN  sum[Len(alts)]
        ELSE IF AtomName(g) = "technology" /\ Len(AtomArgs(g)) = 1
             THEN Solutions("uses_technology(google, " \o AtomArgs(g)[1] \o ")", facts)
        ELSE Cardinality({i \in 1..Len(facts) : Unifies(g, facts[i])})

\* what the clause body written for one query prints: the findall list if
\* it is not empty, else the outcome of call
query_report(c, facts) ==
    LET goal == RStripOf(c.goal, {"."})
        n == Solutions(goal, facts)
    IN  IF n # 0
        THEN [said |-> "Answers", count |-> n, bound |-> c.collected \in VariablesOf(goal)]
        ELSE IF Solutions(goal, facts) > 0
             THEN [said |-> "true.", count |-> 0, bound |-> FALSE]
             ELSE [said |-> "false / no answers.", count |-> 0, bound |-> FALSE]

\* what a run of the program can come to: the reader rejects a goal written
\* with its final period inside the parentheses, consult does not find
\* ../kb/kb.pl from the working directory, or the goals are read and run
run_outcomes(program, kb_file) ==
    (IF Len(findall_calls(program.content)) > 0 THEN {"syntax_error"} ELSE {})
    \cup {"existence_error"}
    \cup (IF kb_file.exists THEN {"ran"} ELSE {})

\* what run_all of the program prints, query by query
run_reports(program, kb_file) ==
    LET calls == findall_calls(program.content)
    IN  [i \in 1..Len(calls) |-> query_report(calls[i], consulted_facts(kb_file))]

----------------------------------------------------------------------------
(* demo/main.py: the ad hoc query executor *)

\* load_prolog_file(path)
load_prolog_file(file) ==
    IF file.exists
    THEN LET stripped == LET raw == Split(file.content, "\n")
                         IN  [i \in 1..Len(raw) |-> Strip(raw[i])]
             kept(l) == l # "" /\ ~StartsWith(l, "%")
         IN  SelectSeq(stripped, kept)
    ELSE <<>>

\* a faulty match: the prefix tested is the predicate name alone
NameMatches(facts, predicate) ==
    LET hit(fact) == StartsWith(Lower(fact), predicate)
    IN  SelectSeq(facts, hit)

\* [fact for fact in facts if fact.lower().startswith(f"{predicate}(")]
PrefixMatches(facts, predicate) ==
    LET hit(fact) == StartsWith(Lower(fact), predicate \o "(")
    IN  SelectSeq(facts, hit)

DISPLAY_LIMIT == 20

\* a faulty scan: the loop without its break
UncappedScan(results, kb_aug, i, predicate) == results \o PrefixMatches(kb_aug, predicate)

RECURSIVE AugmentedScan(_, _, _, _)
\* the loop of lines 267-272 over kb_aug[i..], with its break
AugmentedScan(results, kb_aug, i, predicate) ==
    IF i > Len(kb_aug) THEN results
    ELSE IF StartsWith(Lower(kb_aug[i]), predicate \o "(")
         THEN IF Len(results) + 1 >= DISPLAY_LIMIT THEN Append(results, kb_aug[i])
              ELSE AugmentedScan(Append(results, kb_aug[i]), kb_aug, i + 1, predicate)
         ELSE AugmentedScan(results, kb_aug, i + 1, predicate)

\* lines 253-256
PredicateOf(query_lower) ==
    IF Contains("(", query_lower) THEN Strip(Split(query_lower, "(")[1]) ELSE Strip(query_lower)

\* results after the exact matching of lines 258-272
ExactResults(kb_facts, kb_aug, predicate) ==
    LET results == PrefixMatches(kb_facts, predicate)
    IN  IF predicate \in {"synonym", "is_a"} THEN AugmentedScan(results, kb_aug, 1, predicate)
        ELSE results

\* a faulty condition: the test for "(" is left out
EmptyAlone(results, query_lower) == results = <<>>

\* a faulty test: the fallback runs for every query with "("
ParenAlone(results, query_lower) == Contains("(", query_lower)

\* the condition of line 275
FuzzyApplies(results, query_lower) == results = <<>> /\ Contains("(", query_lower)

\* query_lower.split("(")[1] raises IndexError when the list has one item
ArgsPartRaises(query_lower) == Len(Split(query_lower, "(")) < 2

\* lines 277-278
ArgsOf(query_lower) ==
    LET args_part == RStripOf(Split(query_lower, "(")[2], {")"})
        items == Split(args_part, ",")
    IN  [i \in 1..Len(items) |-> Strip(items[i])]

\* the arguments that line 282 tests
TestedArgs(args) == {args[i] : i \in {j \in 1..Len(args) : args[j] # "" /\ args[j] # "x"}}

\* lines 280-283
FuzzyMatches(kb_facts, args) ==
    LET hit(fact) == \A arg \in TestedArgs(args) : Contains(arg, Lower(fact))
    IN  SelectSeq(kb_facts, hit)

NO_MATCH_NOTE == "No exact match found"

\* a faulty note: taken from the exact matches, before the fallback
NoteOfExact(results, exact, predicate) ==
    IF exact # <<>> THEN "Matched predicate: " \o predicate \o "/N" ELSE NO_MATCH_NOTE

\* the note of line 290, from the list results at the return
NoteFor(results, exact, predicate) ==
    IF results # <<>> THEN "Matched predicate: " \o predicate \o "/N" ELSE NO_MATCH_NOTE

\* what the endpoint gives for a request: the returned dict, or the exception
Returned(query, predicate, results, note) ==
    [outcome |-> "returned", query |-> query, predicate |-> predicate, results |-> results,
     count |-> Len(results), note |-> note]

Raised(exception, query) ==
    [outcome |-> exception, query |-> query, predicate |-> "", results |-> <<>>, count |-> 0,
     note |-> ""]

NoResponse == Raised("none", "")

\* execute_query(req) with req.query = q, on the two files as they are
execute_query(q, kb_file, aug_file) ==
    LET query_lower == Lower(Strip(q))
        kb_facts == load_prolog_file(kb_file)
        kb_aug == load_prolog_file(aug_file)
        predicate == PredicateOf(query_lower)
        exact == ExactResults(kb_facts, kb_aug, predicate)
    IN  IF FuzzyApplies(exact, query_lower)
        THEN IF ArgsPartRaises(query_lower) THEN Raised("IndexError", q)
             ELSE LET results == exact \o FuzzyMatches(kb_facts, ArgsOf(query_lower))
                  IN  Returned(q, predicate, results, NoteFor(results, exact, predicate))
        ELSE Returned(q, predicate, exact, NoteFor(exact, exact, predicate))

----------------------------------------------------------------------------
(* the inputs *)

\* fragments of policy text: the triggers of extract_facts in some spelling,
\* with capitals, dashes and irregular whitespace for the normalizer, and
\* words that trigger nothing
Words ==
    <<"collect", "Google  Account", "provided", "content", "cookies", "Server\nlogs",
      "IP address", "zip", "varies", "not signed in", "unique identifiers", "keep",
      "improve", "protect", "retain", "auto{delete", "delete",
      "business needs", "legal needs", "the">>

MaxWords == 2

Texts == {JoinWith(" ", ws) : ws \in UNION {[1..n -> Range(Words)] : n \in 0..MaxWords}}

\* fragments for the purposes and the account facts: every keyword of
\* purpose_map, the two triggers of the account facts and words without a rule
PurposeWords ==
    <<"provide", "Deliver", "maintain", "keep", "improve", "Personalize", "communicate",
      "protect", "fraud", "abuse", "security", "risk", "Google  Account", "provided",
      "account", "the">>

MaxPurposeWords == 2

PurposeTexts ==
    {JoinWith(" ", ws) : ws \in UNION {[1..n -> Range(PurposeWords)] : n \in 0..MaxPurposeWords}}

\* fragments for pick_predicates: trigger keywords of the catalog, words that
\* hold one inside ("house" holds "use"), and words that trigger nothing
TriggerWords ==
    <<"Content", "cookies", "Server\nlogs", "unique identifiers", "kept  longer",
      "auto{delete", "auto delete", "legal needs", "varies", "house", "the", "zip", "risk",
      "deliver", "a">>

MaxTriggerWords == 2

TriggerTexts ==
    {JoinWith(" ", ws) : ws \in UNION {[1..n -> Range(TriggerWords)] : n \in 0..MaxTriggerWords}}

\* terms for categorize_terms: extracted ones, and phrases a configured
\* PHRASES list could add, some holding keywords of two categories
TermPool ==
    {"google", "google account", "privacy controls", "my ip address", "the",
     "google account data", "personal information settings", "keep longer for business needs"}

TermSets == SUBSET TermPool

\* fragments of questions: each of the first eight satisfies one rule of
\* map_question_to_query, the others half a rule or none
QuestionParts ==
    <<"What information do you collect", "Why do you use", "depend on Privacy  Controls",
      "not signed in identifier", "Google Account information", "upload content",
      "technologies like cookies", "How long until delete", "why", "collect", "content",
      "the weather">>

MaxParts == 2

Questions ==
    {JoinWith(" ", ws) : ws \in UNION {[1..n -> Range(QuestionParts)] : n \in 0..MaxParts}}

\* the paragraphs a deployment is compiled from
SampleParagraphs ==
    {"", "Devices send an IP address.",
     "With a Google Account you provide content.",
     "We collect information to improve services.  We use cookies; you can delete data we retain."}

SampleQuestions == "Q1 Why does Google use cookies?\nWhat data is kept?\n"

ExampleQuestions == "Q1 What information does Google collect?\n"

\* questions with a yes/no answer, with a variable, and without a rule
YesNoQuestions ==
    "Q1 What information do I provide with a Google Account?\n"
    \o "Does collection depend on my privacy controls?\n"
    \o "Q3 Which technologies like cookies are used?\n"
    \o "Is the sky blue?\n"

\* the query strings typed at the demo
Queries ==
    {"collects", " Collects ", "collects(google, X)", "collects(google, X).",
     "collects_tech_data(Google, ip_address)", "foo(google, X)", "foo(,x, )", "foo(user)",
     "foo(improve_services, google)", "nothing(here", "", "(", "()", "foo", "foo)",
     "synonym", "is_a(data, X)", "synonym(", "technology", "a(b(c, google))", "% kb.pl"}

MaxAugFacts == 27

\* the lines of question files: with and without an identifier, in either
\* case, mapped by a rule or by none, blank, and with spaces around
QuestionLines ==
    <<"Q1 Why does Google use cookies?", "What data is kept?", "q7   Is the sky blue?", "",
      "  How long until you delete data?  ", "Q2", "q 3 what information do you collect",
      "Q10\tTell me about ads">>

MaxLines == 2

QuestionFiles ==
    {JoinWith("\n", ls) \o "\n" : ls \in UNION {[1..n -> Range(QuestionLines)] : n \in 0..MaxLines}}

RECURSIVE Concat(_)
Concat(xs) == IF Len(xs) = 0 THEN "" ELSE xs[1] \o Concat(Tail(xs))

\* pieces of texts handed to extract_terms: phrases, short words, words with
\* apostrophes, digits inside words, a phrase inside longer words
TermParts ==
    <<"Google's", "IP address", "it's", "we", "a", "Unique  Identifiers", "o'clock's",
      "auto" \o EN_DASH \o "delete", "x1yz", "'tis", "zip addresses", "Legal\nneeds", "ab'c">>

MaxTermParts == 2

TermInputs ==
    {JoinWith(" ", ws) : ws \in UNION {[1..n -> Range(TermParts)] : n \in 0..MaxTermParts}}

\* the calls that can wait at the demo at one time
MaxWaiting == 2

\* the paragraphs and query strings of the served deployment
ServedParagraphs == {"", "Devices send an IP address."}

ServedQueries == {"collects_tech_data", "synonym", "foo(google, X)"}

\* pieces of texts handed to the normalizers: capitals, both dashes, the
\* ellipsis, whitespace runs of several kinds
NormParts ==
    <<"Wi" \o EN_DASH \o "Fi", "A " \o EM_DASH \o "B", "etc" \o ELLIPSIS, "  two   spaces ",
      "\tTab\n", "plain", ELLIPSIS, "MiXed", "a-b", "...">>

MaxNormParts == 2

NormInputs == {Concat(ws) : ws \in UNION {[1..n -> Range(NormParts)] : n \in 0..MaxNormParts}}

\* pieces of strings handed to slug: letters in both cases, digits in front,
\* underscores, and runs of other characters
SlugParts ==
    <<"IP", " Address!", "2FA", "__", "a_b", " - ", "9", "x", "Wi-Fi", "_", "{", "z3">>

MaxSlugParts == 2

SlugInputs == {Concat(ws) : ws \in UNION {[1..n -> Range(SlugParts)] : n \in 0..MaxSlugParts}}

AugSizes == {n \in 0..MaxAugFacts : n % 9 = 0}

----------------------------------------------------------------------------
(* the file system, the runs and the calls *)

NoVocab == [exists |-> FALSE, content |-> Vocab("", "", <<>>, <<>>)]

PARAGRAPH_PATH == "data/paragraph.txt"
QUESTIONS_PATH == "data/questions.txt"
None == "None"

artifacts == <<vocabulary_json, vocabulary_md, vocab_pl, kb_pl, kb_fol_md>>
results == <<queries_json, queries_md, queries_pl>>
inputs == <<paragraph, questions_txt, questions_example>>
pure == <<term_set, categorized, question, mapped, call>>
service == <<kb_aug_pl, request, response, waiting>>
vars == <<paragraph, questions_txt, questions_example, vocabulary_json, vocabulary_md, vocab_pl,
          kb_pl, kb_fol_md, kb_aug_pl, queries_json, queries_md, queries_pl, term_set,
          categorized, question, mapped, call, request, waiting, response, last, made_from>>

\* the last run: what ran, whether it ended without an exception, and whether
\* its input was the input of the run before it
Ran(op, ok, repeat) == [op |-> op, ok |-> ok, repeat |-> repeat]

NoRun == Ran("none", TRUE, FALSE)

VocabInput(text, questions_arg) == [exists |-> TRUE, content |-> text, questions |-> questions_arg]

NoQueries == [exists |-> FALSE, content |-> <<>>]

NoArtifacts ==
    /\ vocabulary_json = NoVocab
    /\ vocabulary_md = NoFile
    /\ vocab_pl = NoFile
    /\ kb_pl = NoFile
    /\ kb_fol_md = NoFile
    /\ queries_json = NoQueries
    /\ queries_md = NoFile
    /\ queries_pl = NoFile
    /\ made_from = [vocab |-> [exists |-> FALSE, content |-> "", questions |-> None],
                    kb |-> NoFile]

NoCategorization ==
    /\ term_set = {}
    /\ categorized = <<>>

NoMapping ==
    /\ question = ""
    /\ mapped = <<>>

\* a call: the function's name, its argument, and its result once it returned
Call(fn, arg) == [fn |-> fn, arg |-> arg, returned |-> FALSE, result |-> ""]

NoCall == call = Call("none", "")

Idle == [pending |-> FALSE, query |-> ""]

NoService ==
    /\ kb_aug_pl = NoFile
    /\ request = Idle
    /\ waiting = <<>>
    /\ response = NoResponse

\* read_text(path)
read_text(file) == Strip(file.content)

\* build_vocab.py main, as run_all runs it (with_questions = FALSE) or with
\* --questions data/questions.txt
BuildVocab(with_questions) ==
    /\ paragraph.exists
    /\ LET para == read_text(paragraph)
           questions_text == IF with_questions /\ questions_txt.exists
                             THEN read_text(questions_txt) ELSE ""
           questions_arg == IF with_questions THEN QUESTIONS_PATH ELSE None
       IN  \E combined_text \in
                  {para \o (IF questions_text # "" THEN "\n" \o questions_text ELSE "")} :
           \E terms \in {extract_terms(combined_text)} :
           \E categorized_terms \in {categorize_terms(terms)} :
           \E preds \in {pick_predicates(combined_text, terms)} :
           \E vocab \in {Vocab(PARAGRAPH_PATH, questions_arg, categorized_terms, preds)} :
               /\ vocabulary_json' = [exists |-> TRUE, content |-> vocab]
               /\ vocabulary_md' = File(write_text(vocabulary_md.content, write_md(vocab)))
               /\ vocab_pl' = File(write_text(vocab_pl.content, write_prolog(vocab)))
               /\ last' = Ran("build_vocab", TRUE,
                              made_from.vocab = VocabInput(combined_text, questions_arg))
               /\ made_from' = [made_from EXCEPT
                                   !.vocab = VocabInput(combined_text, questions_arg)]
    /\ UNCHANGED <<inputs, kb_pl, kb_fol_md, results, pure, service>>

\* FileNotFoundError("paragraph not found"): nothing is written
BuildVocabMissing ==
    /\ ~paragraph.exists
    /\ last' = Ran("build_vocab", FALSE, FALSE)
    /\ UNCHANGED <<inputs, artifacts, results, pure, service, made_from>>

\* build_kb.py main
BuildKb ==
    /\ paragraph.exists
    /\ \E text \in {Strip(paragraph.content)} :
           /\ kb_pl' = File(write_text(kb_pl.content, write_kb(extract_facts(text))))
           /\ kb_fol_md' = File(write_text(kb_fol_md.content, write_fol_md(extract_fol_lines(text))))
           /\ last' = Ran("build_kb", TRUE, made_from.kb = File(text))
           /\ made_from' = [made_from EXCEPT !.kb = File(text)]
    /\ UNCHANGED <<inputs, vocabulary_json, vocabulary_md, vocab_pl, results, pure, service>>

\* FileNotFoundError("Missing ..."): nothing is written
BuildKbMissing ==
    /\ ~paragraph.exists
    /\ last' = Ran("build_kb", FALSE, FALSE)
    /\ UNCHANGED <<inputs, artifacts, results, pure, service, made_from>>

\* the operator replaces the source paragraph
EditParagraph(text) ==
    /\ paragraph # File(text)
    /\ paragraph' = File(text)
    /\ UNCHANGED <<questions_txt, questions_example, artifacts, results, pure, service, last,
                   made_from>>

\* the operator removes the source paragraph
RemoveParagraph ==
    /\ paragraph.exists
    /\ paragraph' = NoFile
    /\ UNCHANGED <<questions_txt, questions_example, artifacts, results, pure, service, last,
                   made_from>>

\* a call of categorize_terms
Categorize ==
    /\ categorized' = categorize_terms(term_set)
    /\ last' = Ran("categorize_terms", TRUE, FALSE)
    /\ UNCHANGED <<inputs, artifacts, results, service, term_set, question, mapped, call,
                   made_from>>

\* a call of map_question_to_query
MapQuestion ==
    /\ mapped' = map_question_to_query(question)
    /\ last' = Ran("map_question_to_query", TRUE, FALSE)
    /\ UNCHANGED <<inputs, artifacts, results, service, term_set, categorized, question, call,
                   made_from>>

\* the file read_questions reads: questions.txt if it exists
questions_file == IF questions_txt.exists THEN questions_txt ELSE questions_example

\* generate_queries.py main
GenerateQueries ==
    /\ questions_file.exists
    /\ \E items \in {Items(read_questions(questions_file.content))} :
           /\ queries_json' = [exists |-> TRUE, content |-> items]
           /\ queries_md' = File(write_text(queries_md.content, queries_md_text(items)))
           /\ queries_pl' = File(write_text(queries_pl.content, queries_pl_text(items)))
    /\ last' = Ran("generate_queries", TRUE, FALSE)
    /\ UNCHANGED <<inputs, artifacts, pure, service, made_from>>

\* read_text raises FileNotFoundError: nothing is written
GenerateQueriesMissing ==
    /\ ~questions_file.exists
    /\ last' = Ran("generate_queries", FALSE, FALSE)
    /\ UNCHANGED <<inputs, artifacts, results, pure, service, made_from>>

\* swipl -q -f results/queries.pl
RunProgram ==
    /\ queries_pl.exists
    /\ \E outcome \in run_outcomes(queries_pl, kb_pl) :
           call' = [fn |-> "swipl", arg |-> "results/queries.pl", returned |-> TRUE,
                    result |-> [outcome |-> outcome,
                                reports |-> IF outcome = "ran"
                                            THEN run_reports(queries_pl, kb_pl) ELSE <<>>]]
    /\ UNCHANGED <<inputs, artifacts, results, service, term_set, categorized, question, mapped,
                   last, made_from>>

\* run_all.py main: the three stages one after the other; check_call raises
\* at the first stage that fails and the later stages are not started
RunAll ==
    /\ IF ~paragraph.exists
       THEN /\ last' = Ran("run_all", FALSE, FALSE)
            /\ UNCHANGED <<artifacts, results, made_from>>
       ELSE /\ \E combined_text \in {read_text(paragraph)} :
               \E terms \in {extract_terms(combined_text)} :
               \E vocab \in {Vocab(PARAGRAPH_PATH, None, categorize_terms(terms),
                                   pick_predicates(combined_text, terms))} :
                   /\ vocabulary_json' = [exists |-> TRUE, content |-> vocab]
                   /\ vocabulary_md' = File(write_text(vocabulary_md.content, write_md(vocab)))
                   /\ vocab_pl' = File(write_text(vocab_pl.content, write_prolog(vocab)))
                   /\ made_from' = [vocab |-> VocabInput(combined_text, None),
                                    kb |-> File(Strip(paragraph.content))]
            /\ \E text \in {Strip(paragraph.content)} :
                   /\ kb_pl' = File(write_text(kb_pl.content, write_kb(extract_facts(text))))
                   /\ kb_fol_md' = File(write_text(kb_fol_md.content,
                                                   write_fol_md(extract_fol_lines(text))))
            /\ IF questions_file.exists
               THEN /\ \E items \in {Items(read_questions(questions_file.content))} :
                           /\ queries_json' = [exists |-> TRUE, content |-> items]
                           /\ queries_md' = File(write_text(queries_md.content,
                                                            queries_md_text(items)))
                           /\ queries_pl' = File(write_text(queries_pl.content,
                                                            queries_pl_text(items)))
                    /\ last' = Ran("run_all", TRUE, FALSE)
               ELSE /\ last' = Ran("run_all", FALSE, FALSE)
                    /\ UNCHANGED results
    /\ UNCHANGED <<inputs, pure, service>>

\* the operator writes data/questions.txt
EditQuestions(text) ==
    /\ questions_txt # File(text)
    /\ questions_txt' = File(text)
    /\ UNCHANGED <<paragraph, questions_example, artifacts, results, pure, service, last,
                   made_from>>

\* the operator removes data/questions.txt
RemoveQuestions ==
    /\ questions_txt.exists
    /\ questions_txt' = NoFile
    /\ UNCHANGED <<paragraph, questions_example, artifacts, results, pure, service, last,
                   made_from>>

\* the operator removes data/questions.example.txt
RemoveExample ==
    /\ questions_example.exists
    /\ questions_example' = NoFile
    /\ UNCHANGED <<paragraph, questions_txt, artifacts, results, pure, service, last,
                   made_from>>

\* a call of build_kb.norm or of build_vocab.normalize
Normalize ==
    /\ call.fn \in {"norm", "normalize"} /\ ~call.returned
    /\ call' = [call EXCEPT !.returned = TRUE,
                            !.result = IF call.fn = "norm" THEN norm(call.arg)
                                       ELSE normalize(call.arg)]
    /\ UNCHANGED <<inputs, artifacts, results, service, term_set, categorized, question, mapped,
                   last, made_from>>

\* a call of extract_terms
ExtractTerms ==
    /\ call.fn = "extract_terms" /\ ~call.returned
    /\ call' = [call EXCEPT !.returned = TRUE, !.result = extract_terms(call.arg)]
    /\ UNCHANGED <<inputs, artifacts, results, service, term_set, categorized, question, mapped,
                   last, made_from>>

\* a call of slug
Slugify ==
    /\ call.fn = "slug" /\ ~call.returned
    /\ call' = [call EXCEPT !.returned = TRUE, !.result = slug(call.arg)]
    /\ UNCHANGED <<inputs, artifacts, results, service, term_set, categorized, question, mapped,
                   last, made_from>>

\* the lines wordnet_augment.py writes for n facts: per term a run of
\* synonym facts closed by an is_a fact, no fact twice
AugFact(i) ==
    LET term == <<"data", "information", "service">>[(i % 3) + 1]
    IN  IF i % 4 = 0 THEN "is_a(" \o term \o ", h" \o ToString(i) \o ")."
        ELSE "synonym(" \o term \o ", w" \o ToString(i) \o ")."

AUG_HEADER == <<"% kb_aug.pl (auto-generated WordNet augmentation)", "% Provides: synonym/2, is_a/2">>

\* wordnet_augment.py main
WriteAug(n) ==
    /\ kb_aug_pl' = File(write_text(kb_aug_pl.content,
                                    JoinWith("\n", AUG_HEADER \o [i \in 1..n |-> AugFact(i)]) \o "\n"))
    /\ kb_aug_pl' # kb_aug_pl
    /\ UNCHANGED <<inputs, artifacts, results, pure, request, waiting, response, last,
                   made_from>>

\* POST /api/query arrives with req.query = q
Receive(q) ==
    /\ ~request.pending
    /\ request' = [pending |-> TRUE, query |-> q]
    /\ response' = NoResponse
    /\ UNCHANGED <<inputs, artifacts, results, pure, kb_aug_pl, waiting, last, made_from>>

\* a faulty server: the fact list was loaded once, at startup, before the
\* first compiler run
RespondFromStartup ==
    /\ request.pending
    /\ response' = execute_query(request.query, NoFile, NoFile)
    /\ request' = Idle
    /\ UNCHANGED <<inputs, artifacts, results, pure, kb_aug_pl, waiting, last, made_from>>

\* execute_query runs and the reply is sent
Respond ==
    /\ request.pending
    /\ response' = execute_query(request.query, kb_pl, kb_aug_pl)
    /\ request' = Idle
    /\ UNCHANGED <<inputs, artifacts, results, pure, kb_aug_pl, waiting, last, made_from>>

\* a client sends POST /api/query/execute while other calls are waiting
Enqueue(q) ==
    /\ Len(waiting) < MaxWaiting
    /\ waiting' = Append(waiting, q)
    /\ UNCHANGED <<inputs, artifacts, results, pure, kb_aug_pl, request, response, last,
                   made_from>>

\* the event loop starts the handler of one of the waiting calls; the
\* handler has no await, so it runs to its return before the next starts
Start(i) ==
    /\ ~request.pending
    /\ i \in 1..Len(waiting)
    /\ request' = [pending |-> TRUE, query |-> waiting[i]]
    /\ waiting' = SubSeq(waiting, 1, i - 1) \o SubSeq(waiting, i + 1, Len(waiting))
    /\ response' = NoResponse
    /\ UNCHANGED <<inputs, artifacts, results, pure, kb_aug_pl, last, made_from>>

----------------------------------------------------------------------------
(* the specifications *)

\* build_kb on every text
InitFacts ==
    /\ paragraph \in {File(t) : t \in Texts}
    /\ questions_txt = NoFile
    /\ questions_example = NoFile
    /\ NoArtifacts /\ NoCategorization /\ NoMapping /\ NoService
    /\ NoCall
    /\ last = NoRun

NextFacts == BuildKb

SpecFacts == InitFacts /\ [][NextFacts]_vars

\* build_kb on every text of purpose keywords
InitPurposes ==
    /\ paragraph \in {File(t) : t \in PurposeTexts}
    /\ questions_txt = NoFile
    /\ questions_example = NoFile
    /\ NoArtifacts /\ NoCategorization /\ NoMapping /\ NoService
    /\ NoCall
    /\ last = NoRun

NextPurposes == BuildKb

SpecPurposes == InitPurposes /\ [][NextPurposes]_vars

\* build_vocab on every text, as run_all runs it
InitVocab ==
    /\ paragraph \in {File(t) : t \in TriggerTexts}
    /\ questions_txt = NoFile
    /\ questions_example = NoFile
    /\ NoArtifacts /\ NoCategorization /\ NoMapping /\ NoService
    /\ NoCall
    /\ last = NoRun

NextVocab == BuildVocab(FALSE)

SpecVocab == InitVocab /\ [][NextVocab]_vars

\* categorize_terms on every term set
InitCategorize ==
    /\ paragraph = NoFile
    /\ questions_txt = NoFile
    /\ questions_example = NoFile
    /\ NoArtifacts /\ NoMapping /\ NoService
    /\ term_set \in TermSets
    /\ categorized = <<>>
    /\ NoCall
    /\ last = NoRun

NextCategorize == Categorize

SpecCategorize == InitCategorize /\ [][NextCategorize]_vars

\* map_question_to_query on every question
InitMap ==
    /\ paragraph = NoFile
    /\ questions_txt = NoFile
    /\ questions_example = NoFile
    /\ NoArtifacts /\ NoCategorization /\ NoService
    /\ question \in Questions
    /\ mapped = <<>>
    /\ NoCall
    /\ last = NoRun

NextMap == MapQuestion

SpecMap == InitMap /\ [][NextMap]_vars

\* generate_queries.py over question files
InitQueries ==
    /\ paragraph = NoFile
    /\ questions_txt \in {NoFile} \cup {File(t) : t \in QuestionFiles}
    /\ questions_example \in {NoFile, File(SampleQuestions)}
    /\ NoArtifacts /\ NoCategorization /\ NoMapping /\ NoService /\ NoCall
    /\ last = NoRun

NextQueries == GenerateQueries \/ GenerateQueriesMissing

SpecQueries == InitQueries /\ [][NextQueries]_vars

\* the generated program run over the fact-files of several paragraphs
InitProgram ==
    /\ paragraph \in {File(t) : t \in SampleParagraphs \cup {"Collection varies."}}
    /\ questions_txt \in {NoFile, File(YesNoQuestions)}
    /\ questions_example = File(ExampleQuestions)
    /\ NoArtifacts /\ NoCategorization /\ NoMapping /\ NoService /\ NoCall
    /\ last = NoRun

NextProgram ==
    \/ BuildKb
    \/ GenerateQueries
    \/ RemoveQuestions
    \/ RunProgram

SpecProgram == InitProgram /\ [][NextProgram]_vars

\* the pipeline over input files that the operator edits between runs
InitPipeline ==
    /\ paragraph \in {NoFile} \cup {File(t) : t \in SampleParagraphs}
    /\ questions_txt \in {NoFile, File(SampleQuestions)}
    /\ questions_example \in {NoFile, File(ExampleQuestions)}
    /\ NoArtifacts /\ NoCategorization /\ NoMapping /\ NoService /\ NoCall
    /\ last = NoRun

NextPipeline ==
    \/ RunAll
    \/ \E t \in SampleParagraphs : EditParagraph(t)
    \/ RemoveParagraph
    \/ EditQuestions(SampleQuestions)
    \/ RemoveQuestions
    \/ RemoveExample

SpecPipeline == InitPipeline /\ [][NextPipeline]_vars

\* the demo serving concurrent calls between compiler runs
InitServe ==
    /\ paragraph \in {File(t) : t \in ServedParagraphs}
    /\ questions_txt = NoFile
    /\ questions_example = NoFile
    /\ NoArtifacts /\ NoCategorization /\ NoMapping /\ NoService /\ NoCall
    /\ last = NoRun

NextServe ==
    \/ BuildKb
    \/ \E t \in ServedParagraphs : EditParagraph(t)
    \/ WriteAug(9)
    \/ \E q \in ServedQueries : Enqueue(q)
    \/ \E i \in 1..MaxWaiting : Start(i)
    \/ Respond

SpecServe == InitServe /\ [][NextServe]_vars

\* the two normalizers on every input text
InitNorm ==
    /\ paragraph = NoFile
    /\ questions_txt = NoFile
    /\ questions_example = NoFile
    /\ NoArtifacts /\ NoCategorization /\ NoMapping /\ NoService
    /\ call \in {Call(fn, s) : fn \in {"norm", "normalize"}, s \in NormInputs}
    /\ last = NoRun

NextNorm == Normalize

SpecNorm == InitNorm /\ [][NextNorm]_vars

\* extract_terms on every input text
InitTerms ==
    /\ paragraph = NoFile
    /\ questions_txt = NoFile
    /\ questions_example = NoFile
    /\ NoArtifacts /\ NoCategorization /\ NoMapping /\ NoService
    /\ call \in {Call("extract_terms", s) : s \in TermInputs}
    /\ last = NoRun

NextTerms == ExtractTerms

SpecTerms == InitTerms /\ [][NextTerms]_vars

\* slug on every input string
InitSlug ==
    /\ paragraph = NoFile
    /\ questions_txt = NoFile
    /\ questions_example = NoFile
    /\ NoArtifacts /\ NoCategorization /\ NoMapping /\ NoService
    /\ call \in {Call("slug", s) : s \in SlugInputs}
    /\ last = NoRun

NextSlug == Slugify

SpecSlug == InitSlug /\ [][NextSlug]_vars

\* the compiler over a paragraph that the operator edits between runs
InitCompile ==
    /\ paragraph \in {NoFile} \cup {File(t) : t \in SampleParagraphs}
    /\ questions_txt = File(SampleQuestions)
    /\ questions_example = NoFile
    /\ NoArtifacts /\ NoCategorization /\ NoMapping /\ NoService
    /\ NoCall
    /\ last = NoRun

NextCompile ==
    \/ \E text \in SampleParagraphs : EditParagraph(text)
    \/ RemoveParagraph
    \/ \E with_questions \in BOOLEAN : BuildVocab(with_questions)
    \/ BuildVocabMissing
    \/ BuildKb
    \/ BuildKbMissing

SpecCompile == InitCompile /\ [][NextCompile]_vars

\* the demo answering queries over the fact files as they are built
InitExec ==
    /\ paragraph \in {File(t) : t \in SampleParagraphs}
    /\ questions_txt = NoFile
    /\ questions_example = NoFile
    /\ NoArtifacts /\ NoCategorization /\ NoMapping /\ NoService
    /\ NoCall
    /\ last = NoRun

NextExec ==
    \/ BuildKb
    \/ \E n \in AugSizes : WriteAug(n)
    \/ \E q \in Queries : Receive(q)
    \/ Respond

SpecExec == InitExec /\ [][NextExec]_vars

----------------------------------------------------------------------------
(* the properties of the fact extractor *)

\* the fact lines of a fact-file: its lines that are no comment, not blank and
\* no rule
FactLinesOf(content) ==
    LET ground(l) == l # "" /\ ~StartsWith(l, "%") /\ ~Contains(":-", l)
    IN  SelectSeq(Split(content, "\n"), ground)

\* C1: for every input text the fact list that extract_facts returns holds no
\* two entries with the same rendered text, and so the fact lines of the
\* fact-file written from it are pairwise different.
C1_NoDuplicateFacts ==
    kb_pl.exists =>
        /\ NoDuplicates(extract_facts(made_from.kb.content))
        /\ NoDuplicates(FactLinesOf(kb_pl.content))

\* a fact-file written twice from a paragraph that triggers many rules
C1_Witness ==
    /\ kb_pl.exists
    /\ last = Ran("build_kb", TRUE, TRUE)
    /\ Len(FactLinesOf(kb_pl.content)) >= 7

\* the master sequence: every fact extract_facts can emit, in the order of
\* the rules that emit them
MasterSequence ==
    <<"company(google).", "actor(google).", "actor(user).",
      "collects(google, information).",
      "context(google_account).",
      "collects(google, personal_information).",
      "purpose(google, personal_information, create_or_use_account).",
      "collects_content(google, user_content).",
      "uses_technology(google, cookies).",
      "uses_technology(google, server_logs).",
      "collects_tech_data(google, technical_data).",
      "collects_tech_data(google, ip_address).",
      "varies_by(data_collection, service_usage).",
      "varies_by(data_collection, privacy_controls).",
      "stores_under_identifier(google, unique_identifier, not_signed_in, remember_preferences).",
      "uses_for(google, communicate_with_users).",
      "uses_for(google, improve_services).",
      "uses_for(google, maintain_services).",
      "uses_for(google, personalize_content_ads).",
      "uses_for(google, protect_from_fraud_abuse_security_risks).",
      "uses_for(google, provide_services).",
      "retains(google, data, retention_policy).",
      "allows_setting(google, auto_delete).",
      "allows_setting(google, delete).",
      "may_keep_longer_for(google, data, business_needs).",
      "may_keep_longer_for(google, data, legal_needs).">>

\* C2: for every input text the facts that extract_facts returns, as written
\* to the fact-file, are a subsequence of the one master sequence given by
\* rule order, wherever the triggers stand in the text.
C2_RuleOrder ==
    kb_pl.exists =>
        /\ FactLinesOf(kb_pl.content) = extract_facts(made_from.kb.content)
        /\ IsSubsequence(FactLinesOf(kb_pl.content), MasterSequence)

\* a text whose triggers stand in the reverse of rule order
C2_Witness ==
    /\ made_from.kb = File("protect improve")
    /\ FactLinesOf(kb_pl.content) =
          <<"company(google).", "actor(google).", "actor(user).",
            "uses_for(google, improve_services).",
            "uses_for(google, protect_from_fraud_abuse_security_risks).">>

----------------------------------------------------------------------------
(* the properties of the compiler runs *)

\* C3: a compiler run on the input text of the run before it leaves the
\* fact-file and the vocabulary artifacts as they were, and the fact-file a run
\* leaves is the text written for that run's input alone, whatever the file
\* held before.
C3_Idempotent ==
    /\ [](kb_pl.exists => kb_pl.content = write_kb(extract_facts(made_from.kb.content)))
    /\ [][/\ last' = Ran("build_kb", TRUE, TRUE) => kb_pl' = kb_pl /\ kb_fol_md' = kb_fol_md
          /\ last' = Ran("build_vocab", TRUE, TRUE) =>
                 /\ vocabulary_json' = vocabulary_json
                 /\ vocabulary_md' = vocabulary_md
                 /\ vocab_pl' = vocab_pl]_vars

\* both compilers have run, the vocabulary builder twice on one input
C3_Witness ==
    /\ last = Ran("build_vocab", TRUE, TRUE)
    /\ vocab_pl.exists
    /\ kb_pl.exists

----------------------------------------------------------------------------
(* the properties of the vocabulary builder *)

CategorySet(i) == categorized[i][2]

\* C4: categorize_terms puts every term of the term set in exactly one of its
\* category sets, the last of which is "other": the sets are pairwise
\* disjoint, their union is the term set, and no keyword of any category
\* matches a term of "other".
C4_ExactlyOneCategory ==
    categorized # <<>> =>
        /\ \A i, j \in 1..Len(categorized) : i # j => CategorySet(i) \cap CategorySet(j) = {}
        /\ UNION {CategorySet(i) : i \in 1..Len(categorized)} = term_set
        /\ \A term \in term_set :
              Cardinality({i \in 1..Len(categorized) : term \in CategorySet(i)}) = 1
        /\ categorized[Len(categorized)][1] = "other"
        /\ \A term \in CategorySet(Len(categorized)) :
              \A c \in 1..Len(CategoryKeysNorm) : \A k \in 1..Len(CategoryKeysNorm[c]) :
                  ~KeyMatches(term, CategoryKeysNorm[c][k])

\* a term set with a term that keywords of two categories match and a term
\* that no keyword matches
C4_Witness ==
    /\ categorized # <<>>
    /\ \E term \in term_set : Cardinality(MatchingCategories(term)) > 1
    /\ "the" \in CategorySet(Len(categorized))

FALLBACK_PAIR ==
    <<[name |-> "collects", arity |-> 2, template |-> "collects(Actor, DataType)"],
      [name |-> "uses_for", arity |-> 2, template |-> "uses_for(Actor, Purpose)"]>>

\* no trigger keyword of the catalog occurs in the text
NoTriggerIn(joined) ==
    \A p \in 1..Len(TriggersNorm) : \A i \in 1..Len(TriggersNorm[p]) :
        ~Contains(TriggersNorm[p][i], joined)

\* C5: the predicate list pick_predicates returns is never empty, and when
\* the normalized text followed by the extracted terms holds no trigger
\* keyword of the catalog it is the pair collects/2, uses_for/2.
C5_Fallback ==
    vocabulary_json.exists =>
        LET text == made_from.vocab.content
            preds == vocabulary_json.content.predicates
        IN  /\ preds # <<>>
            /\ NoTriggerIn(Joined(text, extract_terms(text))) => preds = FALLBACK_PAIR

\* a vocabulary built from a text without any trigger keyword
C5_Witness ==
    /\ vocabulary_json.exists
    /\ made_from.vocab.content = "the zip"
    /\ NoTriggerIn(Joined("the zip", extract_terms("the zip")))
    /\ vocabulary_json.content.predicates = FALLBACK_PAIR

----------------------------------------------------------------------------
(* the properties of the query mapper *)

\* rule k is the first rule whose condition the normalized question satisfies
FirstMatch(k, t) == RuleCondition(k, t) /\ \A j \in 1..(k - 1) : ~RuleCondition(j, t)

\* C6: for a question that satisfies the substring checks of rule k and of no
\* earlier rule, map_question_to_query returns the output of rule k, whether
\* or not a later rule matches as well.
C6_FirstMatchWins ==
    mapped # <<>> =>
        \A k \in 1..Len(RuleOrder) : FirstMatch(k, question_norm(question)) => mapped = RuleResult(k)

\* a question that satisfies rule 1 and the later rule 2
C6_Witness ==
    /\ question = "Why do you use What information do you collect"
    /\ RuleCondition(1, question_norm(question)) /\ RuleCondition(2, question_norm(question))
    /\ mapped = <<"collects(google, X).", "X (all collected data types)">>

----------------------------------------------------------------------------
(* the properties of the ad hoc query executor *)

\* the step in which the executor answers the pending request
Answers == request.pending /\ ~request'.pending

\* the primary fact list and the auxiliary list the answering call reads
PrimaryLines == load_prolog_file(kb_pl)
AuxiliaryLines == load_prolog_file(kb_aug_pl)

\* the lines of a list whose lowercased text starts with name followed by "("
LinesOf(name, lines) ==
    LET hit(l) == StartsWith(Lower(l), name \o "(")
    IN  SelectSeq(lines, hit)

Trimmed(q) == Lower(Strip(q))

\* the answer of C7 to a query without "(": the primary lines of the
\* predicate, the predicate and the count
ExactAnswer(q, reply) ==
    /\ reply.outcome = "returned"
    /\ reply.results = LinesOf(Trimmed(q), PrimaryLines)
    /\ reply.predicate = Trimmed(q)
    /\ reply.count = Len(reply.results)

\* C7 as stated: for every query string without "(" the executor returns
\* exactly the primary fact lines whose lowercased text starts with the
\* lowercased, trimmed query followed by "(", in list order, with that query
\* as predicate and their number as count.
C7_AsStated ==
    [][Answers /\ ~Contains("(", request.query) => ExactAnswer(request.query, response')]_vars

\* C7: for a query string without "(" that is not synonym or is_a the executor
\* returns exactly the primary fact lines whose lowercased text starts with
\* the lowercased, trimmed query followed by "(", in list order, with that
\* query as predicate and their number as count, so that "collects" gets no
\* collects_content or collects_tech_data line; for synonym and is_a these
\* primary lines are followed by lines of the auxiliary list with the same
\* prefix.
C7_ExactPrefix ==
    [][Answers /\ ~Contains("(", request.query) =>
          LET q == request.query
              reply == response'
              primary == LinesOf(Trimmed(q), PrimaryLines)
          IN  IF Trimmed(q) \in {"synonym", "is_a"}
              THEN /\ reply.outcome = "returned"
                   /\ reply.predicate = Trimmed(q)
                   /\ reply.count = Len(reply.results)
                   /\ Len(reply.results) >= Len(primary)
                   /\ SubSeq(reply.results, 1, Len(primary)) = primary
                   /\ \A i \in (Len(primary) + 1)..Len(reply.results) :
                          reply.results[i] \in Range(LinesOf(Trimmed(q), AuxiliaryLines))
              ELSE /\ ExactAnswer(q, reply)
                   /\ Trimmed(q) = "collects" =>
                          \A i \in 1..Len(reply.results) :
                              /\ ~StartsWith(reply.results[i], "collects_content(")
                              /\ ~StartsWith(reply.results[i], "collects_tech_data(")]_vars

\* "collects" answered from a fact-file that holds collects, collects_content
\* and collects_tech_data lines
C7_Witness ==
    /\ response.outcome = "returned"
    /\ response.query = "collects"
    /\ response.results = <<"collects(google, information).">>
    /\ made_from.kb.content = "We collect information to improve services.  We use cookies; you can delete data we retain."

\* the argument list of a query in canonical form, name(arg, ...) with an
\* optional final period: the comma-separated items between the parentheses
IsCanonical(q) ==
    LET t == Trimmed(q)
        body == IF Len(t) > 0 /\ Char(t, Len(t)) = "." THEN SubSeq(t, 1, Len(t) - 1) ELSE t
    IN  /\ Len(Split(body, "(")) = 2
        /\ Len(Split(body, ")")) = 2
        /\ Len(body) > 0 /\ Char(body, Len(body)) = ")"

ArgumentsOf(q) ==
    LET t == Trimmed(q)
        body == IF Char(t, Len(t)) = "." THEN SubSeq(t, 1, Len(t) - 1) ELSE t
        items == Split(SubSeq(Split(body, "(")[2], 1, Len(Split(body, "(")[2]) - 1), ",")
    IN  {Strip(items[i]) : i \in 1..Len(items)} \ {"", "x"}

\* C8: when a query contains "(" and no fact line has the exact prefix
\* predicate(, the executor returns every primary fact line that contains all
\* of the query's arguments as substrings, empty arguments and the
\* placeholder x left out; stated for the queries in canonical form.
C8_FuzzyFallback ==
    [][(/\ Answers
        /\ IsCanonical(request.query)
        /\ LinesOf(PredicateOf(Trimmed(request.query)), PrimaryLines \o AuxiliaryLines) = <<>>)
       => LET args == ArgumentsOf(request.query)
              hit(l) == \A a \in args : Contains(a, Lower(l))
          IN  /\ response'.outcome = "returned"
              /\ response'.results = SelectSeq(PrimaryLines, hit)]_vars

\* C9: the executor never fails: for every query string and every state of
\* the fact files its reply is a record with query, predicate, results, count
\* and note, and count is the length of results.
C9_NeverFails ==
    /\ response.outcome \in {"none", "returned"}
    /\ response.outcome = "returned" =>
          /\ {"query", "predicate", "results", "count", "note"} \subseteq DOMAIN response
          /\ response.count = Len(response.results)

\* a lone "(" answered while no fact file exists
C9_Witness ==
    /\ response.outcome = "returned"
    /\ response.query = "("
    /\ response.count = 0
    /\ ~kb_pl.exists /\ ~kb_aug_pl.exists

\* C10: the note of a reply is "No exact match found" if and only if its
\* result list is empty, that is, its count is 0.
C10_NoteIffEmpty ==
    response.outcome = "returned" =>
        /\ response.note = "No exact match found" <=> response.results = <<>>
        /\ response.note = "No exact match found" <=> response.count = 0

\* a reply whose lines come from the fuzzy fallback alone
C10_Witness ==
    /\ response.outcome = "returned"
    /\ response.query = "collects(google, X)"
    /\ response.results # <<>>
    /\ \A i \in 1..Len(response.results) : ~StartsWith(response.results[i], "collects(")
    /\ response.note = "Matched predicate: collects/N"

----------------------------------------------------------------------------
(* the properties of the constants *)

\* the characters of s that are lowercase letters or digits, in order
AlnumOnly(s) ==
    LET keep == {i \in 1..Len(s) : IsAlnum(Char(s, i))}
        pick[i \in 0..Len(s)] ==
            IF i = 0 THEN "" ELSE IF i \in keep THEN pick[i - 1] \o Char(s, i) ELSE pick[i - 1]
    IN  pick[Len(s)]

\* the number of runs of other characters that stand between two of them
InnerRuns(s) ==
    Cardinality({i \in 2..Len(s) :
                    /\ ~IsAlnum(Char(s, i)) /\ IsAlnum(Char(s, i - 1))
                    /\ \E j \in (i + 1)..Len(s) : IsAlnum(Char(s, j))})

Underscores(s) == Cardinality({i \in 1..Len(s) : Char(s, i) = "_"})

\* a constant: lowercase letters, digits and single underscores, no
\* underscore at either end and no digit in front
IsConstant(r) ==
    /\ r # ""
    /\ \A i \in 1..Len(r) : IsAlnum(Char(r, i)) \/ Char(r, i) = "_"
    /\ ~Contains("__", r)
    /\ Char(r, 1) # "_" /\ Char(r, Len(r)) # "_"
    /\ Char(r, 1) \notin Digit

\* C11: slug maps every string to a constant; the letters and digits of the
\* lowercased input are kept in order, every run of other characters
\* between them becomes one underscore, a result that would start with a
\* digit gets the prefix x_, an input without letter or digit gives x, and
\* slug maps its own result to itself.
C11_SlugConstant ==
    call.fn = "slug" /\ call.returned =>
        LET r == call.result
            low == Lower(call.arg)
            kept == AlnumOnly(low)
            core == IF kept # "" /\ Char(kept, 1) \in Digit THEN SubSeq(r, 3, Len(r)) ELSE r
        IN  /\ IsConstant(r)
            /\ kept = "" => r = "x"
            /\ kept # "" =>
                  /\ Char(kept, 1) \in Digit => SubSeq(r, 1, 2) = "x_"
                  /\ AlnumOnly(core) = kept
                  /\ Underscores(core) = InnerRuns(low)
            /\ slug(r) = r
            /\ call.arg = "IP Address!" => r = "ip_address"
            /\ call.arg = "2FA" => r = "x_2fa"

\* the two examples, and an input without letter or digit
C11_Witness ==
    /\ call.returned
    /\ \/ call.arg = "IP Address!" /\ call.result = "ip_address"
       \/ call.arg = "2FA" /\ call.result = "x_2fa"
       \/ call.arg = "__ - " /\ call.result = "x"

----------------------------------------------------------------------------
(* the properties of the query generator *)

\* the lines of the generated program between "run_all :-" and "  true."
ProgramBody ==
    LET lines == Split(queries_pl.content, "\n")
    IN  SubSeq(lines, Len(PL_HEADER) + 1, Len(lines) - 2)

\* no rule of map_question_to_query is satisfied by the question
SatisfiesNoRule(q) == \A k \in 1..8 : ~RuleCondition(k, question_norm(q))

Count(xs, Test(_)) == Cardinality({i \in 1..Len(xs) : Test(xs[i])})

\* C12: after a run of the query generator over an existing question file
\* (the run raises no error), every question that satisfies no mapping rule
\* has a record with the sentinel expression and the answer shape "N/A",
\* a row in the display table, and exactly one line in the generated
\* program, the placeholder diagnostic; the program enumerates and
\* truth-checks only the other queries.
C12_SentinelPlaceholder ==
    last.op = "generate_queries" =>
        /\ last.ok = questions_file.exists
        /\ last.ok =>
            LET items == queries_json.content
                asked == question_lines(questions_file.content)
                unmapped == {i \in 1..Len(items) : SatisfiesNoRule(items[i].question)}
                body == ProgramBody
                table == Split(queries_md.content, "\n")
            IN  /\ Len(items) = Len(asked)
                /\ \A i \in 1..Len(items) :
                      \E n \in 1..Len(asked[i]) :
                          SubSeq(asked[i], n, Len(asked[i])) = items[i].question
                /\ \A i \in unmapped :
                      /\ items[i].prolog_query = "% TODO: add mapping rule for this question."
                      /\ items[i].answer_shape = "N/A"
                      /\ \E j \in 1..Len(body) :
                            body[j] = "  format('~n[" \o items[i].qid \o "] TODO mapping.~n', []),"
                      /\ \E j \in 1..Len(table) :
                            table[j] = "| " \o items[i].qid \o " | " \o items[i].question
                                       \o " | " \o BACKQUOTE
                                       \o "% TODO: add mapping rule for this question."
                                       \o BACKQUOTE \o " | N/A |"
                /\ Len(body) = Cardinality(unmapped) + 3 * (Len(items) - Cardinality(unmapped))
                /\ Count(body, LAMBDA ln : Contains("TODO mapping", ln)) = Cardinality(unmapped)
                /\ Count(body, LAMBDA ln : Contains("findall(", ln))
                      = Len(items) - Cardinality(unmapped)
                /\ Count(body, LAMBDA ln : Contains("call((", ln))
                      = Len(items) - Cardinality(unmapped)
                /\ \A j \in 1..Len(body) :
                      ~Contains("% TODO", body[j])

\* a run over a file with one mapped and one unmapped question
C12_Witness ==
    /\ last = Ran("generate_queries", TRUE, FALSE)
    /\ Len(queries_json.content) = 2
    /\ queries_json.content[1].prolog_query = "uses_for(google, Purpose)."
    /\ queries_json.content[2].prolog_query = "% TODO: add mapping rule for this question."
    /\ Len(ProgramBody) = 4

----------------------------------------------------------------------------
(* the baseline facts *)

BaselineFacts == <<"company(google).", "actor(google).", "actor(user).">>

\* every substring that some rule of extract_facts looks for
TriggerSubstrings ==
    {"collect", "google account", "content", "cookie", "server log", "device", "browser", "app",
     "ip", "vary", "varies", "not signed", "identifier", "provide", "deliver", "maintain",
     "keep", "improve", "personalize", "communicate", "protect", "security", "fraud", "abuse",
     "retain", "retention", "kept", "auto-delete", "auto delete", "delete", "business needs",
     "legal needs"} \cup {purpose_map[i][1] : i \in 1..Len(purpose_map)}

NoTriggerSubstring(text) ==
    LET t == norm(text)
    IN  \A k \in TriggerSubstrings : ~Contains(k, t)

\* C13: the three baseline facts are the first three facts extract_facts
\* returns for every text, and the first three fact lines of the fact-file;
\* for the empty text and for every text without a trigger substring they
\* are the whole output.
C13_BaselineFacts ==
    kb_pl.exists =>
        LET text == made_from.kb.content
            facts == extract_facts(text)
            lines == FactLinesOf(kb_pl.content)
        IN  /\ Len(facts) >= 3 /\ SubSeq(facts, 1, 3) = BaselineFacts
            /\ Len(lines) >= 3 /\ SubSeq(lines, 1, 3) = BaselineFacts
            /\ (text = "" \/ NoTriggerSubstring(text)) =>
                  facts = BaselineFacts /\ lines = BaselineFacts

\* the fact-file of the empty text, of a text without trigger substring,
\* and of a text that triggers further rules
C13_Witness ==
    /\ kb_pl.exists
    /\ \/ made_from.kb.content = "" /\ Len(FactLinesOf(kb_pl.content)) = 3
       \/ made_from.kb.content = "the the" /\ Len(FactLinesOf(kb_pl.content)) = 3
       \/ made_from.kb.content = "retain delete" /\ Len(FactLinesOf(kb_pl.content)) = 5

----------------------------------------------------------------------------
(* the pipeline *)

\* C14: a pipeline run that stops on a missing input leaves the vocabulary,
\* fact-file and query artifacts as they were before the run.
C14_FailedRunWritesNothing ==
    [][(last'.op = "run_all" /\ ~last'.ok) => UNCHANGED <<artifacts, results>>]_vars

----------------------------------------------------------------------------
(* the normalizers *)

\* C15: whichever normalizer is called, the result is what the other
\* returns for the same text, and it holds no capital letter, no en or em
\* dash, no ellipsis character, no whitespace but single spaces, and no
\* space at either end.
C15_NormalizersAgree ==
    call.fn \in {"norm", "normalize"} /\ call.returned =>
        LET r == call.result
        IN  /\ r = norm(call.arg)
            /\ r = normalize(call.arg)
            /\ \A i \in 1..Len(r) :
                  /\ Char(r, i) \notin UpperCase \cup {EN_DASH, EM_DASH, ELLIPSIS}
                  /\ IsSpace(Char(r, i)) =>
                        Char(r, i) = " " /\ 1 < i /\ i < Len(r) /\ Char(r, i + 1) # " "

----------------------------------------------------------------------------
(* the executor between compiler runs *)

\* the fact-file the most recent completed run of build_kb wrote
LatestFactFile ==
    IF made_from.kb.exists THEN File(write_kb(extract_facts(made_from.kb.content))) ELSE NoFile

\* C16: every reply is what execute_query computes for the call's query from
\* the fact-file of the most recent completed compiler run and the
\* auxiliary file as it is, whatever other calls are waiting and whatever
\* was answered before; the step that answers changes no file and no
\* waiting call.
C16_StatelessReadOnly ==
    [][Answers =>
          /\ response' = execute_query(request.query, LatestFactFile, kb_aug_pl)
          /\ UNCHANGED <<inputs, artifacts, results, kb_aug_pl, made_from, waiting>>]_vars

\* a reply from a fact-file that was written after the service started,
\* given while another call waits
C16_Witness ==
    /\ response.outcome = "returned"
    /\ response.query = "collects_tech_data"
    /\ response.count = 2
    /\ Len(waiting) >= 1
    /\ kb_aug_pl.exists

----------------------------------------------------------------------------
(* the fuzzy fallback *)

\* the predicate a query names: its lowercased, trimmed text before the
\* first "("
NameOf(q) == IF Contains("(", Trimmed(q)) THEN Strip(Split(Trimmed(q), "(")[1]) ELSE Trimmed(q)

\* the exact-prefix matches of a query in the lists the call reads
ExactPrimary(q) == LinesOf(NameOf(q), PrimaryLines)
ExactAuxiliary(q) ==
    IF NameOf(q) \in {"synonym", "is_a"} THEN LinesOf(NameOf(q), AuxiliaryLines) ELSE <<>>

\* C17: when the exact-prefix scan finds a line, or the query has no "(",
\* every returned line starts with the predicate followed by "(" and the
\* reply holds no more lines than the scan found, so that no line is
\* returned for an argument substring.
C17_FuzzyOnlyWhenNeeded ==
    [][Answers /\ (ExactPrimary(request.query) \o ExactAuxiliary(request.query) # <<>>
                    \/ ~Contains("(", request.query)) =>
          LET reply == response'
          IN  /\ reply.outcome = "returned"
              /\ \A i \in 1..Len(reply.results) :
                    StartsWith(Lower(reply.results[i]), NameOf(request.query) \o "(")
              /\ Len(reply.results)
                    <= Len(ExactPrimary(request.query)) + Len(ExactAuxiliary(request.query))]_vars

\* a query with arguments that has exact matches, in the primary list or in
\* the auxiliary list only
C17_Witness ==
    /\ response.outcome = "returned"
    /\ \/ response.query = "collects_tech_data(Google, ip_address)" /\ response.count = 2
       \/ response.query = "is_a(data, X)" /\ response.count >= 1

\* the text of a query's parenthesized argument list: from the first "(" to
\* the last ")" after it, or to the end where no ")" follows
ArgumentList(q) ==
    LET t == Trimmed(q)
        open == Min({i \in 1..Len(t) : Char(t, i) = "("})
        closes == {i \in (open + 1)..Len(t) : Char(t, i) = ")"}
        close == IF closes = {} THEN Len(t) + 1 ELSE CHOOSE i \in closes : \A j \in closes : j <= i
    IN  SubSeq(t, open + 1, close - 1)

\* its comma-separated items, without the empty ones and the placeholder x
ArgumentTokens(q) ==
    LET items == Split(ArgumentList(q), ",")
    IN  {Strip(items[i]) : i \in 1..Len(items)} \ {"", "x"}

\* C18: for every query string with "(" that has no exact-prefix match, the
\* tokens the fallback tests are the comma-separated items of the whole
\* parenthesized argument list, without empty items and the placeholder x,
\* and the reply holds exactly the primary lines that contain all of them;
\* also for a query with a final period and for one with several "(".
C18_ArgumentTokens ==
    [][(/\ Answers
        /\ Contains("(", request.query)
        /\ ExactPrimary(request.query) \o ExactAuxiliary(request.query) = <<>>)
       => LET hit(l) == \A a \in ArgumentTokens(request.query) : Contains(a, Lower(l))
          IN  /\ TestedArgs(ArgsOf(Trimmed(request.query))) = ArgumentTokens(request.query)
              /\ response'.outcome = "returned"
              /\ response'.results = SelectSeq(PrimaryLines, hit)]_vars

----------------------------------------------------------------------------
(* the lines the executor returns *)

\* a ground fact line in canonical form: name(arg, ...). with no rule
\* operator, and no comment
IsGroundFactLine(l) ==
    /\ Len(l) >= 4
    /\ ~StartsWith(l, "%")
    /\ ~Contains(":-", l)
    /\ Contains("(", l) /\ Char(l, 1) # "("
    /\ SubSeq(l, Len(l) - 1, Len(l)) = ")."

\* C19: every line of a reply is a ground fact line in canonical form: no
\* comment line, no blank line and no line of the derived-rule block of the
\* fact-file is returned.
C19_OnlyFactLines ==
    response.outcome = "returned" =>
        \A i \in 1..Len(response.results) : IsGroundFactLine(response.results[i])

\* C20: for the predicates synonym and is_a the reply holds the primary
\* matches followed by the first min(20, n) of the n auxiliary lines that
\* start with the predicate and "(", in auxiliary-list order; for every
\* other predicate, and in the fuzzy fallback, no auxiliary line is returned.
C20_AuxiliaryCap ==
    [][Answers =>
          LET q == request.query
              reply == response'
              found == ExactAuxiliary(q)
              shown == SubSeq(found, 1, IF Len(found) < 20 THEN Len(found) ELSE 20)
          IN  /\ reply.outcome = "returned"
              /\ ExactPrimary(q) \o found # <<>> /\ NameOf(q) \in {"synonym", "is_a"} =>
                    reply.results = ExactPrimary(q) \o shown
              /\ ExactPrimary(q) \o found = <<>> \/ NameOf(q) \notin {"synonym", "is_a"} =>
                    \A i \in 1..Len(reply.results) :
                        reply.results[i] \notin Range(AuxiliaryLines)]_vars

\* the query synonym against an auxiliary file with more than 20 synonym
\* lines
C20_Witness ==
    /\ response.outcome = "returned"
    /\ response.predicate = "synonym"
    /\ response.count = 20
    /\ Len(LinesOf("synonym", AuxiliaryLines)) > 20

----------------------------------------------------------------------------
(* the generated query program *)

\* the enumerations of the generated program: for every findall line the
\* variable whose bindings it collects and the expression it enumerates
Enumerations ==
    LET body == ProgramBody
        lines == SelectSeq(body, LAMBDA ln : StartsWith(ln, "  ( findall("))
        cut(ln) == Min({i \in 1..(Len(ln) - 2) : SubSeq(ln, i, i + 2) = ", ("})
        close(ln) == Min({i \in 1..(Len(ln) - 6) : SubSeq(ln, i, i + 6) = "), Xs),"})
    IN  [i \in 1..Len(lines) |->
            [collected |-> SubSeq(lines[i], Len("  ( findall(") + 1, cut(lines[i]) - 1),
             expression |-> SubSeq(lines[i], cut(lines[i]) + 3, close(lines[i]) - 1)]]

\* C21: every enumeration of the generated program whose expression has a
\* variable collects the bindings of a variable of that expression.
C21_CollectsOwnVariable ==
    queries_pl.exists =>
        \A i \in 1..Len(Enumerations) :
            VariablesOf(Enumerations[i].expression) # {} =>
                Enumerations[i].collected \in VariablesOf(Enumerations[i].expression)

\* the records of the last generator run that have a query, in file order
AskedQueries ==
    SelectSeq(queries_json.content, LAMBDA it : ~StartsWith(it.prolog_query, "% TODO"))

\* the expression holds in the fact-file: it has no variable, so it holds if
\* each of its atoms is a fact line
HoldsInFactFile(e) == RStripOf(e, {"."}) \o "." \in Range(FactLinesOf(kb_pl.content))

\* C22: a run of the generated program reports, for every query with the
\* answer shape true/false, true. when the expression holds in the
\* fact-file and false / no answers. when it does not.
C22_YesNoOutcome ==
    [][(/\ call'.fn = "swipl"
        /\ UNCHANGED <<inputs, artifacts, results, last>>
        /\ call'.result.outcome = "ran")
       => /\ Len(call'.result.reports) = Len(AskedQueries)
          /\ \A i \in 1..Len(AskedQueries) :
                AskedQueries[i].answer_shape = "true/false" =>
                    call'.result.reports[i].said =
                        IF HoldsInFactFile(AskedQueries[i].prolog_query)
                        THEN "true." ELSE "false / no answers."]_vars

----------------------------------------------------------------------------
(* the active predicates *)

\* the catalog entry named name has a trigger keyword in joined
IsTriggered(name, joined) ==
    \E i \in 1..Len(TriggersOf(name)) : Contains(TriggersOf(name)[i], joined)

CatalogNames == [i \in 1..Len(DEFAULT_PREDICATES) |-> DEFAULT_PREDICATES[i][1]]

\* C23: when a catalog predicate is triggered, the predicate list holds
\* exactly the catalog entries with a trigger keyword in the normalized text
\* followed by a space and the sorted terms, each once, in catalog order,
\* with the catalog's arity and template.
C23_ExactlyTriggered ==
    vocabulary_json.exists =>
        LET text == made_from.vocab.content
            joined == normalize(text) \o " " \o JoinWith(" ", SortedStrings(extract_terms(text)))
            preds == vocabulary_json.content.predicates
            names == [i \in 1..Len(preds) |-> preds[i].name]
        IN  (\E i \in 1..Len(CatalogNames) : IsTriggered(CatalogNames[i], joined)) =>
                /\ \A i \in 1..Len(CatalogNames) :
                      IsTriggered(CatalogNames[i], joined) <=> CatalogNames[i] \in Range(names)
                /\ NoDuplicates(names)
                /\ IsSubsequence(names, CatalogNames)
                /\ \A i \in 1..Len(preds) :
                      \E p \in 1..Len(DEFAULT_PREDICATES) :
                          DEFAULT_PREDICATES[p] = <<preds[i].name, preds[i].arity, preds[i].template>>

\* a text that triggers three entries of the catalog, not adjacent ones
C23_Witness ==
    /\ vocabulary_json.exists
    /\ made_from.vocab.content = "cookies varies"
    /\ Len(vocabulary_json.content.predicates) = 3
    /\ vocabulary_json.content.predicates[3].name = "varies_by"

----------------------------------------------------------------------------
(* the purposes and the dependent facts *)

IsUsesFor(fact) == StartsWith(fact, "uses_for(")

\* the positions of the uses_for facts in a list
UsesForAt(facts) == {i \in 1..Len(facts) : IsUsesFor(facts[i])}

\* C24: the uses_for facts of the output are one fact uses_for(google, P)
\* for each canonical purpose P with a mapped keyword in the normalized
\* text, in ascending order of P, at adjacent positions, in the list
\* extract_facts returns and in the fact-file.
C24_SortedPurposes ==
    kb_pl.exists =>
        LET text == made_from.kb.content
            facts == extract_facts(text)
            t == norm(text)
            matched == {purpose_map[i][2] :
                           i \in {j \in 1..Len(purpose_map) : Contains(purpose_map[j][1], t)}}
            sorted == SortedStrings(matched)
            expected == [i \in 1..Len(sorted) |-> "uses_for(google, " \o sorted[i] \o ")."]
            at == UsesForAt(facts)
        IN  /\ SelectSeq(facts, IsUsesFor) = expected
            /\ SelectSeq(FactLinesOf(kb_pl.content), IsUsesFor) = expected
            /\ \A i, j \in at : \A k \in i..j : k \in at
            /\ \A i, j \in at : i < j => StrLess(facts[i], facts[j])

\* a text whose keywords come in the opposite order of their purposes, and
\* one with two keywords of one purpose
C24_Witness ==
    /\ kb_pl.exists
    /\ \/ /\ made_from.kb.content = "protect improve"
          /\ Cardinality(UsesForAt(FactLinesOf(kb_pl.content))) = 2
       \/ /\ made_from.kb.content = "keep provided"
          /\ Cardinality(UsesForAt(FactLinesOf(kb_pl.content))) = 2

\* the position of a fact in a list, 0 if it is not there
PositionOf(fact, facts) ==
    IF \E i \in 1..Len(facts) : facts[i] = fact
    THEN Min({i \in 1..Len(facts) : facts[i] = fact}) ELSE 0

\* C25: the facts collects(google, personal_information) and
\* purpose(google, personal_information, create_or_use_account) are in the
\* output together, exactly when the normalized text holds both
\* "google account" and "provide"; context(google_account) then precedes
\* them.
C25_DependentFacts ==
    kb_pl.exists =>
        LET text == made_from.kb.content
            t == Strip(CollapseWhitespace(Lower(text)))
            lines == FactLinesOf(kb_pl.content)
            context == PositionOf("context(google_account).", lines)
            data == PositionOf("collects(google, personal_information).", lines)
            why == PositionOf("purpose(google, personal_information, create_or_use_account).",
                              lines)
        IN  /\ lines = extract_facts(text)
            /\ (data > 0) = (why > 0)
            /\ (data > 0) = (Contains("google account", t) /\ Contains("provide", t))
            /\ data > 0 => 0 < context /\ context < data /\ data < why

\* a text with both triggers, one with the context trigger alone
C25_Witness ==
    /\ kb_pl.exists
    /\ made_from.kb.content = "provided Google  Account"
    /\ PositionOf("collects(google, personal_information).", FactLinesOf(kb_pl.content)) = 5

----------------------------------------------------------------------------
(* the extracted terms *)

\* the letters of t from i to j are a word of t: no letter stands before or
\* after them
IsWordAt(t, i, j) ==
    /\ i <= j
    /\ \A k \in i..j : Char(t, k) \in LowerCase
    /\ i = 1 \/ Char(t, i - 1) \notin LowerCase
    /\ j = Len(t) \/ Char(t, j + 1) \notin LowerCase

\* s is a token of t: a word, or two words joined by one apostrophe
IsTokenOf(s, t) ==
    \E i \in 1..Len(t) :
        /\ SubSeq(t, i, i + Len(s) - 1) = s
        /\ \/ IsWordAt(t, i, i + Len(s) - 1)
           \/ \E q \in (i + 1)..(i + Len(s) - 2) :
                 /\ Char(t, q) = "'"
                 /\ IsWordAt(t, i, q - 1) /\ IsWordAt(t, q + 1, i + Len(s) - 1)

----------------------------------------------------------------------------
(* the fact base against the vocabulary of the same run *)

\* the predicate names the vocabulary artifact declares
DeclaredNames ==
    {vocabulary_json.content.predicates[i].name : i \in 1..Len(vocabulary_json.content.predicates)}

\* the predicate names the fact-file uses
UsedNames == {AtomName(f) : f \in Range(FactLinesOf(kb_pl.content))}

\* C27: after a run of the pipeline over one text, every fact of the
\* fact-file uses a predicate name that the vocabulary artifact of the same
\* run declares.
C27_FactsUseDeclaredPredicates ==
    (/\ last.op = "run_all" /\ kb_pl.exists /\ vocabulary_json.exists
     /\ made_from.vocab.content = made_from.kb.content)
    => UsedNames \subseteq DeclaredNames

----------------------------------------------------------------------------
(* the arities of the facts *)

\* the arity the catalog declares for a name, 0 for a name outside it
CatalogArity(name) ==
    LET at == {i \in 1..Len(DEFAULT_PREDICATES) : DEFAULT_PREDICATES[i][1] = name}
    IN  IF at = {} THEN 0 ELSE DEFAULT_PREDICATES[CHOOSE i \in at : TRUE][2]

\* the arguments of a fact: the comma-separated parts between its parentheses
FactArguments(f) == Split(SubSeq(f, Len(AtomName(f)) + 2, Len(f) - 2), ",")

\* C28: every fact of the fact list whose predicate name is in the catalog
\* has exactly the number of arguments the catalog declares for that name.
C28_CatalogArity ==
    kb_pl.exists =>
        \A f \in Range(FactLinesOf(kb_pl.content)) :
            LET arity == CatalogArity(AtomName(f))
            IN  arity # 0 => /\ SubSeq(f, Len(f) - 1, Len(f)) = ")."
                             /\ Len(FactArguments(f)) = arity

\* facts of two, three and four arguments from one text
C28_Witness ==
    /\ kb_pl.exists
    /\ made_from.kb.content \in {"not signed in unique identifiers", "keep retain"}
    /\ \E f \in Range(FactLinesOf(kb_pl.content)) :
          Len(FactArguments(f)) = 2 /\ CatalogArity(AtomName(f)) = 2
    /\ \E f \in Range(FactLinesOf(kb_pl.content)) : Len(FactArguments(f)) \in {3, 4}

----------------------------------------------------------------------------
(* the constants of vocab.pl *)

\* the entity_type lines of vocab.pl
EntityLines ==
    LET declares(l) == StartsWith(l, "entity_type(")
    IN  SelectSeq(Split(vocab_pl.content, "\n"), declares)

\* C29: vocab.pl declares each constant of a category once: it holds no two
\* identical entity_type lines.
C29_ConstantsDeclaredOnce == vocab_pl.exists => NoDuplicates(EntityLines)

----------------------------------------------------------------------------
(* the ids of the queries *)

\* the ids of the records of results/queries.json, in file order
QueryIds == [i \in 1..Len(queries_json.content) |-> queries_json.content[i].qid]

\* C30: after a successful run of generate_queries the records have
\* pairwise distinct ids, one per non-blank line of the question file,
\* whether the lines carry their own number or take it from their position.
C30_DistinctIds ==
    (last.op = "generate_queries" /\ last.ok) =>
        /\ Len(QueryIds) = Len(question_lines(questions_file.content))
        /\ \A i, j \in 1..Len(QueryIds) : QueryIds[i] = QueryIds[j] => i = j

====
